---- MODULE Spec2Model ----
(***************************************************************************)
(* Model of the Investigation Assistant of app.py: the visualization       *)
(* assembler, the planner's response parser, result enrichment, the query  *)
(* executor with repair, and the per-turn orchestrator.                    *)
(*                                                                         *)
(* Python strings that the code slices, splits or concatenates are         *)
(* sequences of one-character strings.  A property map (dict) is a         *)
(* function whose DOMAIN is the set of keys present.                       *)
(***************************************************************************)
EXTENDS Integers, Sequences, FiniteSets, TLC

(***************************************************************************)
(* Python built-ins used by the code                                       *)
(***************************************************************************)
UPPER == <<"A","B","C","D","E","F","G","H","I","J","K","L","M",
           "N","O","P","Q","R","S","T","U","V","W","X","Y","Z">>

LOWER == <<"a","b","c","d","e","f","g","h","i","j","k","l","m",
           "n","o","p","q","r","s","t","u","v","w","x","y","z">>

\* str.lower() on one character
LowerChar(c) ==
    IF \E i \in 1..Len(UPPER) : UPPER[i] = c
    THEN LOWER[CHOOSE i \in 1..Len(UPPER) : UPPER[i] = c]
    ELSE c

\* a lower-casing that leaves every character as it is
Lower_Identity(s) == s

\* str.lower()
Lower(s) == [i \in 1..Len(s) |-> LowerChar(s[i])]

\* str.replace("_", " ")
ReplaceUnderscore(s) == [i \in 1..Len(s) |-> IF s[i] = "_" THEN " " ELSE s[i]]

\* s[:n]
Take(s, n) == SubSeq(s, 1, IF Len(s) < n THEN Len(s) ELSE n)

\* s[n:]  (n counted from 0, as in Python)
Drop(s, n) == SubSeq(s, n + 1, Len(s))

\* s.startswith(p)
StartsWith(s, p) == Len(s) >= Len(p) /\ SubSeq(s, 1, Len(p)) = p

\* s.endswith(p)
EndsWith(s, p) == Len(s) >= Len(p) /\ SubSeq(s, Len(s) - Len(p) + 1, Len(s)) = p

\* d.get(k, default)
Get(d, k, default) == IF k \in DOMAIN d THEN d[k] ELSE default

\* the absent value (None)
None == [kind |-> "none"]

\* x in a list
InSeq(x, s) == \E i \in 1..Len(s) : s[i] = x

Min(a, b) == IF a < b THEN a ELSE b

(***************************************************************************)
(* More string operations                                                  *)
(***************************************************************************)
\* the characters str.strip() removes
WHITESPACE == {" ", "\n", "\t", "\r"}

RECURSIVE LStrip(_)
LStrip(s) == IF s # <<>> /\ Head(s) \in WHITESPACE THEN LStrip(Tail(s)) ELSE s

RECURSIVE RStrip(_)
RStrip(s) ==
    IF s # <<>> /\ s[Len(s)] \in WHITESPACE THEN RStrip(SubSeq(s, 1, Len(s) - 1)) ELSE s

\* s.strip()
Strip(s) == RStrip(LStrip(s))

\* the 0-based offsets at which sep occurs in s
Occurrences(s, sep) ==
    {k \in 0..(Len(s) - Len(sep)) : SubSeq(s, k + 1, k + Len(sep)) = sep}

\* sep in s
Contains(s, sep) == Occurrences(s, sep) # {}

SetMin(S) == CHOOSE x \in S : \A y \in S : x <= y

SetMax(S) == CHOOSE x \in S : \A y \in S : x >= y

\* s.split(sep): every non-overlapping occurrence, scanning from the left
RECURSIVE Split(_, _)
Split(s, sep) ==
    IF ~Contains(s, sep) THEN <<s>>
    ELSE LET k == SetMin(Occurrences(s, sep))
         IN  <<Take(s, k)>> \o Split(Drop(s, k + Len(sep)), sep)

\* s.split(sep, 1): at most one split, at the first occurrence
Split1(s, sep) ==
    IF ~Contains(s, sep) THEN <<s>>
    ELSE LET k == SetMin(Occurrences(s, sep))
         IN  <<Take(s, k), Drop(s, k + Len(sep))>>

\* s.rsplit(sep, 1): at most one split, at the last occurrence
RSplit1(s, sep) ==
    IF ~Contains(s, sep) THEN <<s>>
    ELSE LET k == SetMax(Occurrences(s, sep))
         IN  <<Take(s, k), Drop(s, k + Len(sep))>>

\* [q.strip() for q in parts if q.strip()]
RECURSIVE StripNonEmpty(_)
StripNonEmpty(parts) ==
    IF parts = <<>> THEN <<>>
    ELSE IF Strip(Head(parts)) = <<>> THEN StripNonEmpty(Tail(parts))
    ELSE <<Strip(Head(parts))>> \o StripNonEmpty(Tail(parts))

\* sep.join(parts)
RECURSIVE Join(_, _)
Join(sep, parts) ==
    IF parts = <<>> THEN <<>>
    ELSE IF Len(parts) = 1 THEN parts[1]
    ELSE parts[1] \o sep \o Join(sep, Tail(parts))

\* the backtick, which cannot be written inside a TLA+ string
BACKTICK == "backtick"

FENCE == <<BACKTICK, BACKTICK, BACKTICK>>

NEWLINE == <<"\n">>

\* the query delimiter of the planner's response
QUERY_DELIMITER == <<"-", "-", "-">>

FOLLOW_UPS_DELIMITER ==
    <<"-","-","-","F","O","L","L","O","W","_","U","P","S","-","-","-">>

\* what call_llm returns when the provider call raises: f"LLM Error: {str(e)}"
LLM_ERROR == <<"L","L","M"," ","E","r","r","o","r">>

LLM_ERROR_TEXT == LLM_ERROR \o <<":", " ", "x">>

\* chat_history or "No prior context."
NO_PRIOR_CONTEXT ==
    <<"N","o"," ","p","r","i","o","r"," ","c","o","n","t","e","x","t",".">>

\* the clarification request of an aborted turn (lines 2001-2003)
FALLBACK_MSG ==
    <<"I"," ","w","a","s","n","'","t"," ","a","b","l","e"," ","t","o"," ","t","r","a","n","s",
          "l","a","t","e"," ","t","h","a","t"," ","i","n","t","o"," ","a"," ","g","r","a","p",
          "h"," ","q","u","e","r","y","."," ","C","o","u","l","d"," ","y","o","u"," ","r","e",
          "p","h","r","a","s","e","?"," ","F","o","r"," ","e","x","a","m","p","l","e",","," ",
          "t","r","y"," ","a","s","k","i","n","g"," ","a","b","o","u","t"," ","a"," ","s","p",
          "e","c","i","f","i","c"," ","p","r","o","v","i","d","e","r",","," ","a","t","t","o",
          "r","n","e","y",","," ","c","l","a","i","m",","," ","o","r"," ","v","e","h","i","c",
          "l","e"," ","b","y"," ","n","a","m","e"," ","o","r"," ","I","D",".">>

\* the substitute finding when synthesis fails (lines 2099-2101)
SYNTHESIS_FALLBACK ==
    <<"I"," ","r","a","n"," ","i","n","t","o"," ","a","n"," ","i","s","s","u","e"," ","g","e",
          "n","e","r","a","t","i","n","g"," ","t","h","e"," ","a","n","a","l","y","s","i","s",
          "."," ","T","h","e"," ","g","r","a","p","h"," ","r","e","s","u","l","t","s"," ","a",
          "r","e"," ","s","h","o","w","n"," ","a","b","o","v","e"," ","emdash"," ","t","r","y"," ",
          "a","s","k","i","n","g"," ","a"," ","m","o","r","e"," ","s","p","e","c","i","f","i",
          "c"," ","q","u","e","s","t","i","o","n"," ","a","b","o","u","t"," ","w","h","a","t",
          " ","y","o","u"," ","s","e","e",".">>

(***************************************************************************)
(* classify_query_complexity                                               *)
(***************************************************************************)
deep_patterns ==
    << <<"c","o","n","n","e","c","t","e","d">>,
       <<"n","e","t","w","o","r","k">>,
       <<"r","e","l","a","t","i","o","n","s","h","i","p">>,
       <<"l","i","n","k","e","d">>,
       <<"s","h","a","r","e","d">>,
       <<"b","e","t","w","e","e","n">>,
       <<"c","o","n","n","e","c","t","i","o","n">>,
       <<"r","i","n","g">>,
       <<"p","a","t","t","e","r","n">>,
       <<"c","l","u","s","t","e","r">>,
       <<"c","o","m","p","a","r","e">>,
       <<"a","v","e","r","a","g","e">>,
       <<"a","n","o","m","a","l">>,
       <<"u","n","u","s","u","a","l">>,
       <<"s","u","s","p","i","c","i","o","u","s">>,
       <<"h","i","g","h","e","r"," ","t","h","a","n">>,
       <<"l","o","w","e","r"," ","t","h","a","n">>,
       <<"d","e","v","i","a","t","i","o","n">>,
       <<"p","e","e","r">>,
       <<"a","l","l"," ","c","l","a","i","m","s">>,
       <<"a","l","l"," ","p","r","o","v","i","d","e","r","s">>,
       <<"a","l","l"," ","a","t","t","o","r","n","e","y","s">>,
       <<"e","v","e","r","y">>,
       <<"a","c","r","o","s","s">>,
       <<"m","u","l","t","i","p","l","e">>,
       <<"t","i","m","e","l","i","n","e">>,
       <<"b","e","f","o","r","e">>,
       <<"a","f","t","e","r">>,
       <<"t","e","n","u","r","e">>,
       <<"d","u","r","a","t","i","o","n">>,
       <<"h","o","w"," ","l","o","n","g">>,
       <<"w","h","e","n"," ","d","i","d">>,
       <<"i","n","v","e","s","t","i","g","a","t","e">>,
       <<"p","r","o","b","e">>,
       <<"d","i","g"," ","i","n","t","o">>,
       <<"f","o","l","l","o","w"," ","u","p">>,
       <<"w","h","a","t"," ","e","l","s","e">>,
       <<"w","h","o"," ","e","l","s","e">>,
       <<"a","n","y"," ","o","t","h","e","r">>,
       <<"c","o","m","p","l","e","t","e"," ","n","e","t","w","o","r","k">>,
       <<"f","u","l","l"," ","h","i","s","t","o","r","y">>,
       <<"e","v","e","r","y","t","h","i","n","g"," ","a","b","o","u","t">>,
       <<"t","h","o","s","e"," ","c","l","a","i","m","s">>,
       <<"t","h","o","s","e"," ","p","r","o","v","i","d","e","r","s">>,
       <<"t","h","o","s","e"," ","a","t","t","o","r","n","e","y","s">>,
       <<"t","h","a","t"," ","p","r","o","v","i","d","e","r">>,
       <<"t","h","a","t"," ","a","t","t","o","r","n","e","y">>,
       <<"s","a","m","e"," ","p","e","o","p","l","e">>,
       <<"s","a","m","e"," ","p","e","r","s","o","n">>,
       <<"s","a","m","e"," ","v","e","h","i","c","l","e">>,
       <<"s","a","m","e"," ","a","d","d","r","e","s","s">>,
       <<"s","a","m","e"," ","p","h","o","n","e">>,
       <<"s","a","m","e"," ","d","e","v","i","c","e">>,
       <<"s","a","m","e"," ","f","a","x">>,
       <<"r","e","p","r","e","s","e","n","t","a","t","i","o","n"," ","r","a","t","e">>,
       <<"h","o","w"," ","m","a","n","y">>,
       <<"w","h","a","t"," ","p","e","r","c","e","n","t","a","g","e">>,
       <<"w","h","a","t"," ","f","r","a","c","t","i","o","n">>,
       <<"e","x","p","o","s","u","r","e">>,
       <<"t","o","t","a","l"," ","a","m","o","u","n","t">>,
       <<"t","o","t","a","l"," ","v","a","l","u","e">>,
       <<"s","h","a","r","e">>,
       <<"c","o","m","m","o","n">>,
       <<"o","v","e","r","l","a","p">>,
       <<"i","n"," ","c","o","m","m","o","n">>,
       <<"d","e","v","i","c","e">>,
       <<"f","a","x">>,
       <<"p","h","o","n","e"," ","n","u","m","b","e","r">>,
       <<"a","d","d","r","e","s","s">>,
       <<"h","i","s","t","o","r","y">>,
       <<"p","r","e","v","i","o","u","s","l","y">>,
       <<"f","o","r","m","e","r">>,
       <<"p","r","i","o","r">>,
       <<"o","p","e","n","e","d">>,
       <<"c","l","o","s","e","d">>,
       <<"r","e","v","o","k","e","d">>,
       <<"s","a","n","c","t","i","o","n","e","d">> >>

classify_query_complexity(question) ==
    LET question_lower == Lower(question)
    IN  IF \E k \in 1..Len(deep_patterns) : Contains(question_lower, deep_patterns[k])
        THEN "deep" ELSE "simple"

(***************************************************************************)
(* Response parsers                                                        *)
(***************************************************************************)
\* the fence clean-up shared by plan_investigation (1647-1652) and
\* execute_cypher_with_retry (1691-1696)
StripFences(raw) ==
    LET s0 == Strip(raw)
        s1 == IF StartsWith(s0, FENCE)
              THEN LET parts == Split1(s0, NEWLINE) IN parts[Len(parts)]
              ELSE s0
        s2 == IF EndsWith(s1, FENCE) THEN RSplit1(s1, FENCE)[1] ELSE s1
    IN  Strip(s2)

\* the safety cap of the planner
MAX_QUERIES == 2

\* a planner without the cap
CapQueries_None(qs) == qs

\* a planner that lets three queries through
CapQueries_Three(qs) == Take(qs, MAX_QUERIES + 1)

\* queries[:2]
CapQueries(qs) == Take(qs, MAX_QUERIES)

\* lines 1643-1657 of plan_investigation: the query list of a response
ParseQueries(cypher_raw) ==
    IF StartsWith(cypher_raw, LLM_ERROR) THEN <<>>
    ELSE CapQueries(StripNonEmpty(Split(StripFences(cypher_raw), QUERY_DELIMITER)))

MAX_FOLLOW_UPS == 3

\* a parse that keeps every follow-up line
parse_synthesis_response_NoCap(response_text) ==
    IF Contains(response_text, FOLLOW_UPS_DELIMITER)
    THEN LET parts == Split1(response_text, FOLLOW_UPS_DELIMITER)
         IN  [analysis   |-> Strip(parts[1]),
              follow_ups |-> StripNonEmpty(Split(Strip(parts[2]), NEWLINE))]
    ELSE [analysis |-> Strip(response_text), follow_ups |-> <<>>]

parse_synthesis_response(response_text) ==
    IF Contains(response_text, FOLLOW_UPS_DELIMITER)
    THEN LET parts == Split1(response_text, FOLLOW_UPS_DELIMITER)
         IN  [analysis   |-> Strip(parts[1]),
              follow_ups |-> Take(StripNonEmpty(Split(Strip(parts[2]), NEWLINE)),
                                  MAX_FOLLOW_UPS)]
    ELSE [analysis |-> Strip(response_text), follow_ups |-> <<>>]

(***************************************************************************)
(* Lookup tables of the visual design system                               *)
(***************************************************************************)
COLOR_MAP ==
    ("Claim" :> "#4A90A4") @@
    ("Claimant" :> "#5DADE2") @@
    ("Witness" :> "#85C1E9") @@
    ("Adjuster" :> "#58D68D") @@
    ("Employee" :> "#48C9B0") @@
    ("Provider" :> "#AF7AC5") @@
    ("Attorney" :> "#F5B041") @@
    ("BodyShop" :> "#EB984E") @@
    ("Address" :> "#45B7A0") @@
    ("Phone" :> "#5499C7") @@
    ("Location" :> "#9B7ED9") @@
    ("Vehicle" :> "#E74C3C") @@
    ("Person" :> "#5DADE2") @@
    ("Firm" :> "#D35400") @@
    ("Policy" :> "#34495E") @@
    ("Insurer" :> "#1A5276")

DEFAULT_COLOR == "#AAB7B8"

RELATIONSHIP_LABELS ==
    (<<"F","I","L","E","D","_","B","Y">> :> <<"f","i","l","e","d"," ","b","y">>) @@
    (<<"T","R","E","A","T","E","D","_","A","T">> :> <<"t","r","e","a","t","e","d"," ","a","t">>) @@
    (<<"R","E","P","R","E","S","E","N","T","E","D","_","B","Y">> :> <<"r","e","p","r","e","s","e","n","t","e","d"," ","b","y">>) @@
    (<<"H","A","N","D","L","E","D","_","B","Y">> :> <<"h","a","n","d","l","e","d"," ","b","y">>) @@
    (<<"W","I","T","N","E","S","S","E","D","_","B","Y">> :> <<"w","i","t","n","e","s","s","e","d"," ","b","y">>) @@
    (<<"O","C","C","U","R","R","E","D","_","A","T">> :> <<"o","c","c","u","r","r","e","d"," ","a","t">>) @@
    (<<"I","N","V","O","L","V","E","S","_","V","E","H","I","C","L","E">> :> <<"i","n","v","o","l","v","e","s">>) @@
    (<<"L","I","V","E","S","_","A","T">> :> <<"l","i","v","e","s"," ","a","t">>) @@
    (<<"H","A","S","_","P","H","O","N","E">> :> <<"u","s","e","s"," ","d","e","v","i","c","e">>) @@
    (<<"C","O","V","E","R","S">> :> <<"c","o","v","e","r","s">>) @@
    (<<"H","A","S","_","P","O","L","I","C","Y">> :> <<"p","o","l","i","c","y","h","o","l","d","e","r">>) @@
    (<<"U","N","D","E","R","_","P","O","L","I","C","Y">> :> <<"u","n","d","e","r"," ","p","o","l","i","c","y">>) @@
    (<<"I","N","S","U","R","E","D","_","B","Y">> :> <<"i","n","s","u","r","e","d"," ","b","y">>) @@
    (<<"L","O","C","A","T","E","D","_","A","T">> :> <<"l","o","c","a","t","e","d"," ","a","t">>) @@
    (<<"O","W","N","E","D","_","B","Y">> :> <<"o","w","n","e","d"," ","b","y">>) @@
    (<<"F","O","R","M","E","R","_","E","M","P","L","O","Y","E","E","_","O","F">> :> <<"f","o","r","m","e","r","l","y"," ","e","m","p","l","o","y","e","d"," ","a","t">>) @@
    (<<"I","N","V","O","L","V","E","D">> :> <<"i","n","v","o","l","v","e","d"," ","i","n">>)

\* the priority list of get_node_label
LABEL_PRIORITY ==
    <<"Claimant", "Witness", "Adjuster", "Employee", "Provider",
      "Attorney", "BodyShop", "Address", "Phone", "Location", "Claim",
      "Person", "Vehicle", "Policy", "Firm", "Insurer">>

\* label[:20] + "..." applies to names longer than this
LABEL_MAX == 20

ROOT_SIZE == 50

NODE_SIZE == 30

ROOT_BORDER == 3

NODE_BORDER == 2

EDGE_WIDTH == 2

(***************************************************************************)
(* Graph records.  A cell of a record is a node value, a relationship      *)
(* value, a string scalar or None.  A record is the sequence of its cells  *)
(* in column order (record.items() / record.values()).                     *)
(***************************************************************************)
NodeValue(element_id, labels, props) ==
    [kind |-> "node", element_id |-> element_id, labels |-> labels, props |-> props]

\* start / end are the element_id of rel.start_node / rel.end_node
RelValue(element_id, type, start, end, props) ==
    [kind |-> "rel", element_id |-> element_id, type |-> type,
     start |-> start, end |-> end, props |-> props]

StrValue(s) == [kind |-> "str", s |-> s]

\* hasattr(value, 'labels')
IsNode(value) == value.kind = "node"

\* hasattr(value, 'type') and hasattr(value, 'start_node')
IsRel(value) == value.kind = "rel"

\* the cells of all records, in the order the two nested loops visit them
RECURSIVE Cells(_)
Cells(records) ==
    IF records = <<>> THEN <<>> ELSE Head(records) \o Cells(Tail(records))

(***************************************************************************)
(* create_graph_visualization and its helpers                              *)
(***************************************************************************)
get_node_label(labels) ==
    IF \E i \in 1..Len(LABEL_PRIORITY) : InSeq(LABEL_PRIORITY[i], labels)
    THEN LET first == CHOOSE i \in 1..Len(LABEL_PRIORITY) :
                        /\ InSeq(LABEL_PRIORITY[i], labels)
                        /\ \A j \in 1..(i - 1) : ~InSeq(LABEL_PRIORITY[j], labels)
         IN  LABEL_PRIORITY[first]
    ELSE IF labels # <<>> THEN labels[1] ELSE "Unknown"

\* one line of the tooltip: a caption and its text (n carries a number);
\* the header line "--- LABEL ---" has the category as its caption
Line(k, v) == [k |-> k, v |-> v, n |-> 0]

\* format_currency: "$" followed by the amount, "N/A" for a falsy amount
format_currency(amount) ==
    IF amount # 0 THEN [k |-> "Amount", v |-> <<"$">>, n |-> amount]
    ELSE [k |-> "Amount", v |-> <<"N","/","A">>, n |-> 0]

\* props.get(key) is truthy, for a string-valued and a number-valued key
HasText(props, key) == key \in DOMAIN props /\ props[key] # <<>>

HasNumber(props, key) == key \in DOMAIN props /\ props[key] # 0

\* node_id = props.get('id', str(element_id))
NodeId(value) == Get(value.props, "id", value.element_id)

\* name = props.get('name', props.get('number', props.get('street', props.get('vin', node_id))))
NodeName(value) ==
    Get(value.props, "name",
        Get(value.props, "number",
            Get(value.props, "street",
                Get(value.props, "vin", NodeId(value)))))

\* str(name)[:20] + "..." if len(str(name)) > 20 else str(name)
DisplayLabel(name) ==
    IF Len(name) > LABEL_MAX THEN Take(name, LABEL_MAX) \o <<".", ".", ".">> ELSE name

TooltipLines(value, label) ==
    LET props == value.props
        head  == <<Line(label, <<"-", "-", "-">>), Line("Name", NodeName(value))>>
        claim == (IF HasNumber(props, "claim_amount")
                  THEN <<format_currency(props["claim_amount"])>> ELSE <<>>)
                 \o (IF HasText(props, "status")
                     THEN <<Line("Status", props["status"])>> ELSE <<>>)
                 \o (IF HasText(props, "incident_type")
                     THEN <<Line("Type", props["incident_type"])>> ELSE <<>>)
        policy == IF HasText(props, "bind_date")
                  THEN <<Line("Bound", props["bind_date"])>> ELSE <<>>
        phone == (IF HasText(props, "type")
                  THEN <<Line("Device", props["type"])>> ELSE <<>>)
                 \o (IF HasText(props, "number")
                     THEN <<Line("Number", props["number"])>> ELSE <<>>)
        body == IF label = "Claim" THEN claim
                ELSE IF label = "Policy" THEN policy
                ELSE IF label = "Phone" THEN phone
                ELSE <<>>
    IN  head \o body \o <<Line("ID", NodeId(value))>>

\* the Node(...) built at lines 609-647
MakeNode(value, label, root_id) ==
    LET is_root == root_id # <<>> /\ NodeId(value) = root_id
    IN  [id          |-> value.element_id,
         label       |-> DisplayLabel(NodeName(value)),
         size        |-> IF is_root THEN ROOT_SIZE ELSE NODE_SIZE,
         color       |-> Get(COLOR_MAP, label, DEFAULT_COLOR),
         title       |-> TooltipLines(value, label),
         shape       |-> IF is_root THEN "star" ELSE "dot",
         borderWidth |-> IF is_root THEN ROOT_BORDER ELSE NODE_BORDER]

\* a dedup test that never finds the identity
NodeKnown_Never(nodes, element_id) == FALSE

\* element_id in nodes
NodeKnown(nodes, element_id) == \E i \in 1..Len(nodes) : nodes[i].id = element_id

\* if entity_filters and label not in entity_filters: continue
FilteredOut(entity_filters, label) == entity_filters # {} /\ label \notin entity_filters

\* the first loop (lines 591-647): nodes in insertion order of the dict
RECURSIVE NodePass(_, _, _, _)
NodePass(cells, root_id, entity_filters, nodes) ==
    IF cells = <<>> THEN nodes
    ELSE LET value == Head(cells)
             next(acc) == NodePass(Tail(cells), root_id, entity_filters, acc)
         IN  IF ~IsNode(value) THEN next(nodes)
             ELSE IF NodeKnown(nodes, value.element_id) THEN next(nodes)
             ELSE IF FilteredOut(entity_filters, get_node_label(value.labels))
                  THEN next(nodes)
             ELSE next(Append(nodes,
                              MakeNode(value, get_node_label(value.labels), root_id)))

\* a key that leaves the relationship type out
EdgeKey_NoType(source, target, type) == source \o <<"-">> \o target

\* edge_key = f"{source}-{target}-{rel.type}"
EdgeKey(source, target, type) == source \o <<"-">> \o target \o <<"-">> \o type

\* RELATIONSHIP_LABELS.get(rel.type, rel.type.replace("_", " ").lower()),
\* suffixed with " (role)" when the relationship has a truthy role
RelLabel(rel) ==
    LET base == Get(RELATIONSHIP_LABELS, rel.type, Lower(ReplaceUnderscore(rel.type)))
    IN  IF HasText(rel.props, "role")
        THEN base \o <<" ", "(">> \o rel.props["role"] \o <<")">>
        ELSE base

\* the Edge(...) built at lines 673-682
MakeEdge(rel) ==
    [source |-> rel.start,
     target |-> rel.end,
     title  |-> <<"R","e","l",":"," ">> \o RelLabel(rel),
     label  |-> RelLabel(rel),
     color  |-> "#888888",
     width  |-> EDGE_WIDTH]

\* an endpoint test that is satisfied by one known endpoint
EndpointsKnown_Either(nodes, rel) == NodeKnown(nodes, rel.start) \/ NodeKnown(nodes, rel.end)

\* rel.start_node.element_id in nodes and rel.end_node.element_id in nodes
EndpointsKnown(nodes, rel) == NodeKnown(nodes, rel.start) /\ NodeKnown(nodes, rel.end)

\* the second loop (lines 649-682): acc = [edge_set, edges]
RECURSIVE EdgePass(_, _, _)
EdgePass(cells, nodes, acc) ==
    IF cells = <<>> THEN acc
    ELSE LET value == Head(cells)
             next(a) == EdgePass(Tail(cells), nodes, a)
         IN  IF ~IsRel(value) THEN next(acc)
             ELSE IF ~EndpointsKnown(nodes, value) THEN next(acc)
             ELSE LET edge_key == EdgeKey(value.start, value.end, value.type)
                  IN  IF edge_key \in acc.edge_set THEN next(acc)
                      ELSE next([edge_set |-> acc.edge_set \cup {edge_key},
                                 edges    |-> Append(acc.edges, MakeEdge(value))])

Reverse(s) == [i \in 1..Len(s) |-> s[Len(s) + 1 - i]]

\* an assembler whose lists come out in the opposite order
create_graph_visualization_Reversed(records, root_id, entity_filters) ==
    LET nodes == NodePass(Cells(records), root_id, entity_filters, <<>>)
        done  == EdgePass(Cells(records), nodes, [edge_set |-> {}, edges |-> <<>>])
    IN  [nodes |-> Reverse(nodes), edges |-> Reverse(done.edges)]

\* return list(nodes.values()), edges
create_graph_visualization(records, root_id, entity_filters) ==
    LET nodes == NodePass(Cells(records), root_id, entity_filters, <<>>)
        done  == EdgePass(Cells(records), nodes, [edge_set |-> {}, edges |-> <<>>])
    IN  [nodes |-> nodes, edges |-> done.edges]

(***************************************************************************)
(* Input universe of the assembler                                         *)
(***************************************************************************)
\* the most records in one call of the assembler
MaxRecords == 3

RECURSIVE SeqsUpTo(_, _)
SeqsUpTo(S, n) ==
    IF n = 0 THEN {<<>>}
    ELSE LET shorter == SeqsUpTo(S, n - 1)
         IN  shorter \cup {Append(s, x) : s \in {t \in shorter : Len(t) = n - 1}, x \in S}

NoProps == [k \in {} |-> <<>>]

E1 == <<"1">>

E2 == <<"2">>

E3 == <<"3">>

E4 == <<"4">>

CLM_1 == <<"C","L","M","_","1">>

P_1 == <<"P","_","1">>

FILED_BY == <<"F","I","L","E","D","_","B","Y">>

SENT_TO == <<"S","E","N","T","_","T","O">>

LongName == <<"A","c","m","e"," ","R","e","c","o","v","e","r","y"," ","M","e","d","i","c","a","l">>

\* the claim node, as two queries of one turn may return it
ClaimA == NodeValue(E1, <<"Claim">>,
                    [id |-> CLM_1, claim_amount |-> 5, status |-> <<"O","p","e","n">>])

ClaimB == NodeValue(E1, <<"Claim">>, [id |-> CLM_1, name |-> LongName])

PersonN == NodeValue(E2, <<"Person", "Claimant">>, [id |-> P_1, name |-> <<"A","l">>])

\* a node without labels and without a domain id
BareN == NodeValue(E4, <<>>, [street |-> <<"1"," ","E","l","m">>])

Filed12 == RelValue(<<"9">>, FILED_BY, E1, E2, [role |-> <<"D","r","i","v","e","r">>])

\* a second relationship with the same endpoints and type
Filed12b == RelValue(<<"8">>, FILED_BY, E1, E2, NoProps)

Filed21 == RelValue(<<"7">>, FILED_BY, E2, E1, NoProps)

Sent12 == RelValue(<<"6">>, SENT_TO, E1, E2, NoProps)

\* its end node E3 is in no record
Filed13 == RelValue(<<"5">>, FILED_BY, E1, E3, NoProps)

RecordUniverse ==
    { <<ClaimA>>, <<ClaimB>>, <<PersonN>>, <<BareN>>,
      <<ClaimA, Filed12, PersonN>>, <<PersonN, Filed12, ClaimA>>,
      <<Filed12b>>, <<Filed21>>, <<Sent12>>, <<Filed13>>,
      <<None, StrValue(CLM_1)>> }

RootIds == {<<>>, CLM_1}

EntityFilters == {{}, {"Claim"}}

(***************************************************************************)
(* The graph store.  It holds one claim filed by one person.  Queries      *)
(* written by the model return some rows of it or raise; the two fixed     *)
(* queries of lines 720-724 and 1749-1753 are evaluated on its content.    *)
(***************************************************************************)
\* the entity-identifier prefixes of enrich_visualization (lines 1722-1723)
ID_PREFIXES ==
    << <<"P","R","O","V","_">>,
       <<"A","T","T","_">>,
       <<"P","_">>,
       <<"C","L","M","_">>,
       <<"V","E","H","_">>,
       <<"P","O","L","_">>,
       <<"F","A","X","_">>,
       <<"D","E","V","I","C","E","_">>,
       <<"A","D","D","R","_">>,
       <<"L","O","C","_">>,
       <<"A","D","J","_">>,
       <<"I","N","S","_">> >>

StoreNodes == {ClaimA, PersonN}

StoreRels == <<Filed12>>

StoreNode(element_id) == CHOOSE n \in StoreNodes : n.element_id = element_id

\* what run_query can return when it does not raise
QueryResults ==
    { <<>>,
      << <<ClaimA>> >>,
      << <<StrValue(P_1)>> >>,
      << <<ClaimA, Filed12, PersonN>> >> }

\* MATCH (a)-[r]-(b) WHERE elementId(a) IN $ids AND elementId(b) IN $ids
\* RETURN a, r, b : every relationship once per orientation
RECURSIVE RelationshipRows(_, _)
RelationshipRows(rels, ids) ==
    IF rels = <<>> THEN <<>>
    ELSE LET r == Head(rels)
         IN  (IF r.start \in ids /\ r.end \in ids
              THEN << <<StoreNode(r.start), r, StoreNode(r.end)>>,
                      <<StoreNode(r.end), r, StoreNode(r.start)>> >>
              ELSE <<>>)
             \o RelationshipRows(Tail(rels), ids)

\* the rows get_relationships_for_nodes returns when the store answers
get_relationships_for_nodes(node_ids) ==
    IF node_ids = {} THEN <<>> ELSE RelationshipRows(StoreRels, node_ids)

NEIGHBORHOOD_LIMIT == 30

\* MATCH (root {id: $eid})-[r]-(neighbor) RETURN root, r, neighbor LIMIT 30
RECURSIVE NeighborRows(_, _)
NeighborRows(rels, eid) ==
    IF rels = <<>> THEN <<>>
    ELSE LET r == Head(rels)
             a == StoreNode(r.start)
             b == StoreNode(r.end)
         IN  (IF Get(a.props, "id", <<>>) = eid THEN << <<a, r, b>> >> ELSE <<>>)
             \o (IF Get(b.props, "id", <<>>) = eid THEN << <<b, r, a>> >> ELSE <<>>)
             \o NeighborRows(Tail(rels), eid)

Neighborhood(eid) == Take(NeighborRows(StoreRels, eid), NEIGHBORHOOD_LIMIT)

(***************************************************************************)
(* The language model                                                      *)
(***************************************************************************)
Q1 == <<"q", "1">>

Q2 == <<"q", "2">>

Q3 == <<"q", "3">>

\* message contents the provider can return for each prompt
ReasoningContents == { <<" ", "r", "1">> }

CypherContents ==
    { <<>>,
      Q1,
      Q1 \o NEWLINE \o QUERY_DELIMITER \o NEWLINE \o Q2,
      Q1 \o QUERY_DELIMITER \o Q2 \o QUERY_DELIMITER \o Q3 }

FixContents == { FENCE \o NEWLINE \o <<"f", "x">> \o NEWLINE \o FENCE }

SynthesisContents ==
    { <<>>,
      <<"F">>,
      <<"F">> \o NEWLINE \o FOLLOW_UPS_DELIMITER \o NEWLINE
         \o <<"u", "\n", "v", "\n", "\n", "w", "\n", "x">> }

\* a provider call either raises or returns a message content
LlmOutcomes(contents) ==
    {[ok |-> FALSE, content |-> <<>>]} \cup {[ok |-> TRUE, content |-> c] : c \in contents}

\* a call_llm whose failure is not signalled in the returned text
call_llm_NoErrorText(outcome) == IF outcome.ok THEN Strip(outcome.content) ELSE <<>>

\* call_llm: the stripped content, or the in-band error text
call_llm(outcome) == IF outcome.ok THEN Strip(outcome.content) ELSE LLM_ERROR_TEXT

\* the literal text of each prompt template, placeholders excluded
PROMPT_TEXT_LEN == [reason |-> 1499, cypher |-> 1889, fix |-> 415, synth |-> 2959]

RECURSIVE TotalLen(_)
TotalLen(parts) == IF parts = <<>> THEN 0 ELSE Len(Head(parts)) + TotalLen(Tail(parts))

\* len(prompt): the template text and the modelled strings formatted into it
\* (schema text, few-shot examples, error message and serialized results are
\* prompt data outside the model)
PromptLen(kind, parts) == PROMPT_TEXT_LEN[kind] + TotalLen(parts)

\* lines 1849-1853: the usage counters after a call that returned
CountCall(count, outcome) == IF outcome.ok THEN count + 1 ELSE count

CountTokens(estimate, outcome, kind, parts) ==
    IF outcome.ok
    THEN estimate + (PromptLen(kind, parts) \div 4) + (Len(call_llm(outcome)) \div 4)
    ELSE estimate

(***************************************************************************)
(* Pure steps of the pipeline                                              *)
(***************************************************************************)
\* the rows _serialize_records_for_llm keeps
MAX_ROWS == 15

\* one cell as serialized for the model: a node becomes its property dict, a
\* relationship the string "[:TYPE]", anything else stays
SerializeCell(v) ==
    IF IsNode(v) THEN [kind |-> "dict", props |-> v.props]
    ELSE IF IsRel(v) THEN StrValue(<<"[", ":">> \o v.type \o <<"]">>)
    ELSE v

_serialize_records_for_llm(recs) ==
    [r \in 1..Min(Len(recs), MAX_ROWS) |->
        [c \in 1..Len(recs[r]) |-> SerializeCell(recs[r][c])]]

\* any(value.startswith(prefix) for prefix in [...])
HasIdPrefix(s) == \E k \in 1..Len(ID_PREFIXES) : StartsWith(s, ID_PREFIXES[k])

\* lines 1716-1724: the identifier a serialized cell refers to, if any
CellEntityIds(v) ==
    IF v.kind = "dict"
    THEN (IF HasText(v.props, "id") THEN {v.props["id"]} ELSE {})
    ELSE IF v.kind = "str"
    THEN (IF HasIdPrefix(v.s) THEN {v.s} ELSE {})
    ELSE {}

\* lines 1711-1724: entity_ids over the "data" of every query result
EntityIds(query_results_records) ==
    UNION { CellEntityIds(c) :
              c \in UNION { UNION { {qr.data[r][k] : k \in 1..Len(qr.data[r])}
                                    : r \in 1..Len(qr.data) }
                            : qr \in {query_results_records[q] :
                                        q \in 1..Len(query_results_records)} } }

\* bool(value) of a graph value: a node or relationship without properties,
\* an empty string and None are falsy
Truthy(v) ==
    IF v.kind \in {"node", "rel"} THEN DOMAIN v.props # {}
    ELSE IF v.kind = "str" THEN v.s # <<>>
    ELSE FALSE

CellSet(recs) == {Cells(recs)[k] : k \in 1..Len(Cells(recs))}

\* lines 1727-1734: the domain ids of the nodes already fetched
ExistingNodeIds(recs) ==
    {v.props["id"] : v \in {c \in CellSet(recs) :
                               Truthy(c) /\ IsNode(c) /\ HasText(c.props, "id")}}

\* missing_ids = entity_ids - existing_node_ids
MissingIds(query_results_records, recs) ==
    EntityIds(query_results_records) \ ExistingNodeIds(recs)

\* the cap on neighborhood fetches
MAX_ENRICH == 5

\* list(missing_ids)[:5]: the order of a set is not fixed, so any ordering of
\* any MAX_ENRICH (or all, if fewer) of the missing ids
RECURSIVE Orderings(_, _)
Orderings(S, n) ==
    IF n = 0 \/ S = {} THEN {<<>>}
    ELSE UNION { {<<x>> \o t : t \in Orderings(S \ {x}, n - 1)} : x \in S }

\* an enrichment that visits every missing id
IdsToFetch_All(missing_ids) == Orderings(missing_ids, Cardinality(missing_ids))

IdsToFetch(missing_ids) == Orderings(missing_ids, MAX_ENRICH)

\* lines 2047-2051: every truthy value that has an element_id
CollectNodeIds(recs) ==
    {v.element_id : v \in {c \in CellSet(recs) : Truthy(c) /\ c.kind \in {"node", "rel"}}}

\* a flag that looks at the row count alone
AutoCorrected_RowsOnly(had_error, recs) == Len(recs) > 0

\* "auto_corrected": had_error and len(records) > 0   (line 2035)
AutoCorrected(had_error, recs) == had_error /\ Len(recs) > 0

\* the tuples execute_cypher_with_retry returns
Returned(recs, executed_query, had_error) ==
    [records |-> recs, executed_query |-> executed_query, had_error |-> had_error]

\* line 1672
RetFirstOk(recs, query) == Returned(recs, query, FALSE)

\* a failed repair reported without the error flag
RetRepairFailed_NoFlag(query) == Returned(<<>>, query, FALSE)

\* line 1688
RetRepairFailed(query) == Returned(<<>>, query, TRUE)

\* line 1701
RetSecondOk(recs, fixed) == Returned(recs, fixed, FALSE)

\* a failure that reports the repaired text instead of the original
RetSecondFailed_ShowsFixed(query, fixed) == Returned(<<>>, fixed, TRUE)

\* line 1703
RetSecondFailed(query, fixed) == Returned(<<>>, query, TRUE)

\* the audit entry appended at lines 2030-2036
QueryResultEntry(index, ret) ==
    [query_index    |-> index,
     cypher         |-> ret.executed_query,
     result_count   |-> Len(ret.records),
     data           |-> _serialize_records_for_llm(ret.records),
     auto_corrected |-> AutoCorrected(ret.had_error, ret.records)]

\* lines 1990-1992: the digest of the last five memory entries
MEMORY_WINDOW == 5

\* a digest that reads the whole memory
LastEntries_All(history) == history

LastEntries(history) ==
    SubSeq(history, IF Len(history) > MEMORY_WINDOW
                    THEN Len(history) - MEMORY_WINDOW + 1 ELSE 1, Len(history))

RECURSIVE RenderEntries(_)
RenderEntries(entries) ==
    IF entries = <<>> THEN <<>>
    ELSE <<"Q", ":", " ">> \o Head(entries).question
         \o <<"\n", "A", "p", "p", "r", "o", "a", "c", "h", ":", " ">>
         \o Head(entries).reasoning \o <<"\n", "\n">>
         \o RenderEntries(Tail(entries))

ChatHistoryText(history) == RenderEntries(LastEntries(history))

\* chat_history or "No prior context."   (line 1622)
PromptHistory(text) == IF text = <<>> THEN NO_PRIOR_CONTEXT ELSE text

UserMessage(content) == [role |-> "user", content |-> content]

ClarificationMessage == [role |-> "assistant", content |-> FALLBACK_MSG]

\* a finding stored without the graph of the turn
FindingMessage_NoGraph(content, gnodes, gedges, cyphers, follow_ups) ==
    [role        |-> "assistant",
     content     |-> content,
     graph_nodes |-> <<>>,
     graph_edges |-> <<>>,
     cypher      |-> Join(<<"\n", "-", "-", "-", "\n">>, cyphers),
     follow_ups  |-> follow_ups]

\* the message stored at lines 2106-2113 (None is the empty sequence)
FindingMessage(content, gnodes, gedges, cyphers, follow_ups) ==
    [role        |-> "assistant",
     content     |-> content,
     graph_nodes |-> gnodes,
     graph_edges |-> gedges,
     cypher      |-> Join(<<"\n", "-", "-", "-", "\n">>, cyphers),
     follow_ups  |-> follow_ups]

\* an entry that keeps the last query of the turn
MemoryEntry_LastQuery(question, reasoning_text, cyphers) ==
    [question  |-> question,
     reasoning |-> reasoning_text,
     cypher    |-> IF cyphers # <<>> THEN cyphers[Len(cyphers)] ELSE <<>>]

\* the entry stored at lines 2115-2119
MemoryEntry(question, reasoning_text, cyphers) ==
    [question  |-> question,
     reasoning |-> reasoning_text,
     cypher    |-> IF cyphers # <<>> THEN cyphers[1] ELSE <<>>]

(***************************************************************************)
(* State                                                                   *)
(***************************************************************************)
VARIABLES
    \* a call of create_graph_visualization on its own
    vpc,                    \* "off", "call", "returned"
    records,                \* its arguments
    root_id,
    entity_filters,
    nodes,                  \* its result
    edges,
    rerun_filters,          \* a second call on the same records and root id
    rerun_nodes,
    rerun_edges,
    \* st.session_state: the scenario walkthrough
    current_scenario,
    current_hop,
    presses,                \* the buttons and selections used so far
    \* st.session_state: the assistant
    assistant_messages,
    assistant_chat_history,
    llm_call_count,
    llm_token_estimate,
    \* render_investigation_assistant: position and locals of the turn
    pc,
    user_input,
    is_deep,
    schema,
    chat_history_text,
    reasoning,
    cypher_raw,             \* plan_investigation: the text of the second call
    queries,
    qi,                     \* the loop index i of line 2020, from 1
    all_records,
    query_results_text,
    all_cypher,
    had_any_error,
    graph_nodes,
    graph_edges,
    node_ids,               \* the set of line 2047, passed to the edge fetch
    response_text,          \* what the synthesis call returned (line 2078)
    \* execute_cypher_with_retry
    fixed_clean,
    \* enrich_visualization
    ids_to_fetch,           \* the part of ids_to_fetch not yet visited
    enrichment_records,
    \* history of the turn: external calls made, tuples returned by the
    \* executor, and the memory as it was when the question was submitted
    calls,
    returns,
    memory_at_submit,
    segments                \* the segments the model put into cypher_raw

vizVars ==
    <<vpc, records, root_id, entity_filters, nodes, edges, rerun_filters, rerun_nodes,
      rerun_edges>>

walkVars == <<current_scenario, current_hop, presses>>

sessionVars ==
    <<assistant_messages, assistant_chat_history, llm_call_count, llm_token_estimate>>

planVars ==
    <<user_input, is_deep, schema, chat_history_text, reasoning, cypher_raw, queries>>

execVars == <<qi, all_records, query_results_text, all_cypher, had_any_error, fixed_clean>>

enrichVars == <<ids_to_fetch, enrichment_records>>

graphVars == <<graph_nodes, graph_edges, node_ids>>

synthVars == <<response_text>>

historyVars == <<calls, returns, memory_at_submit, segments>>

turnVars == <<pc, planVars, execVars, enrichVars, graphVars, synthVars, historyVars>>

vars == <<vizVars, walkVars, sessionVars, turnVars>>

\* no call of the assembler on its own is under way
VizOff ==
    /\ vpc = "off"
    /\ records = <<>>
    /\ root_id = <<>>
    /\ entity_filters = {}
    /\ nodes = <<>>
    /\ edges = <<>>
    /\ rerun_filters = {}
    /\ rerun_nodes = <<>>
    /\ rerun_edges = <<>>

\* lines 780-783: the walkthrough of a new session
WalkOff ==
    /\ current_scenario = 1
    /\ current_hop = 0
    /\ presses = 0

\* no turn is under way
TurnOff(at) ==
    /\ pc = at
    /\ user_input = <<>>
    /\ is_deep = FALSE
    /\ schema = "none"
    /\ chat_history_text = <<>>
    /\ reasoning = <<>>
    /\ cypher_raw = <<>>
    /\ queries = <<>>
    /\ qi = 0
    /\ all_records = <<>>
    /\ query_results_text = <<>>
    /\ all_cypher = <<>>
    /\ had_any_error = FALSE
    /\ graph_nodes = <<>>
    /\ graph_edges = <<>>
    /\ node_ids = {}
    /\ response_text = <<>>
    /\ fixed_clean = <<>>
    /\ ids_to_fetch = <<>>
    /\ enrichment_records = <<>>
    /\ calls = <<>>
    /\ returns = <<>>
    /\ memory_at_submit = <<>>
    /\ segments = <<>>

SessionEmpty ==
    /\ assistant_messages = <<>>
    /\ assistant_chat_history = <<>>
    /\ llm_call_count = 0
    /\ llm_token_estimate = 0

\* one external call, as recorded in the history of the turn
Call(call, index, eid, ok) == [call |-> call, qi |-> index, eid |-> eid, ok |-> ok]

(***************************************************************************)
(* The assembler called on bounded inputs                                  *)
(***************************************************************************)
InitViz ==
    /\ vpc = "call"
    /\ records \in SeqsUpTo(RecordUniverse, MaxRecords)
    /\ root_id \in RootIds
    /\ entity_filters \in EntityFilters
    /\ nodes = <<>>
    /\ edges = <<>>
    /\ rerun_filters = {}
    /\ rerun_nodes = <<>>
    /\ rerun_edges = <<>>
    /\ WalkOff
    /\ SessionEmpty
    /\ TurnOff("off")

Assemble ==
    /\ vpc = "call"
    /\ LET out == create_graph_visualization(records, root_id, entity_filters)
       IN  /\ nodes' = out.nodes
           /\ edges' = out.edges
    /\ vpc' = "returned"
    /\ UNCHANGED <<records, root_id, entity_filters, rerun_filters, rerun_nodes,
                   rerun_edges, walkVars, sessionVars, turnVars>>

NextViz == Assemble

SpecViz == InitViz /\ [][NextViz]_vars

\* the assembler called again on the records and root id of the first call,
\* with any entity filter a caller can pass
Reassemble ==
    /\ vpc = "returned"
    /\ \E filters \in EntityFilters :
          LET out == create_graph_visualization(records, root_id, filters)
          IN  /\ rerun_filters' = filters
              /\ rerun_nodes' = out.nodes
              /\ rerun_edges' = out.edges
    /\ vpc' = "rerun"
    /\ UNCHANGED <<records, root_id, entity_filters, nodes, edges, walkVars, sessionVars,
                   turnVars>>

NextRerun == Assemble \/ Reassemble

SpecRerun == InitViz /\ [][NextRerun]_vars

(***************************************************************************)
(* Sessions a turn can start from: n completed turns, none repaired, each  *)
(* with one query that returned no rows and a synthesis without follow-ups *)
(***************************************************************************)
\* the most completed turns before the turn that is modelled
MaxPriorTurns == 1

Digit == <<"1", "2", "3", "4", "5", "6", "7", "8", "9">>

PriorQuestion(k) == <<"S", "h", "o", "w", " ", Digit[k]>>

PriorReasoning(k) == <<"r", Digit[k]>>

PriorQuery(k) == <<"q", Digit[k]>>

PriorEntry(k) == MemoryEntry(PriorQuestion(k), PriorReasoning(k), <<PriorQuery(k)>>)

PriorHistory(n) == [k \in 1..n |-> PriorEntry(k)]

RECURSIVE PriorMessages(_)
PriorMessages(n) ==
    IF n = 0 THEN <<>>
    ELSE PriorMessages(n - 1)
         \o <<UserMessage(PriorQuestion(n)),
              FindingMessage(<<"F">>, <<>>, <<>>, <<PriorQuery(n)>>, <<>>)>>

OkContent(c) == [ok |-> TRUE, content |-> c]

\* the token estimate after n such turns
RECURSIVE PriorTokens(_)
PriorTokens(n) ==
    IF n = 0 THEN 0
    ELSE LET digest == PromptHistory(ChatHistoryText(PriorHistory(n - 1)))
             t1 == CountTokens(PriorTokens(n - 1), OkContent(PriorReasoning(n)), "reason",
                               <<digest, PriorQuestion(n)>>)
             t2 == CountTokens(t1, OkContent(PriorQuery(n)), "cypher",
                               <<PriorReasoning(n), PriorQuestion(n)>>)
         IN  CountTokens(t2, OkContent(<<"F">>), "synth",
                         <<PriorQuestion(n), PriorReasoning(n)>>)

SessionAfter(n) ==
    /\ assistant_messages = PriorMessages(n)
    /\ assistant_chat_history = PriorHistory(n)
    /\ llm_call_count = 3 * n   \* reasoning, query generation, synthesis
    /\ llm_token_estimate = PriorTokens(n)

(***************************************************************************)
(* One turn of render_investigation_assistant                              *)
(***************************************************************************)
Questions ==
    { <<"S","h","o","w"," ","c","l","a","i","m">>,
      <<"S","h","o","w"," ","N","e","t","w","o","r","k">> }

Init ==
    /\ VizOff
    /\ WalkOff
    /\ \E n \in 0..MaxPriorTurns : SessionAfter(n)
    /\ TurnOff("idle")

\* lines 1977-1987: the question is shown and classified; the simple tier
\* takes SCHEMA_LITE without store access
Submit ==
    /\ pc = "idle"
    /\ \E q \in Questions :
          /\ user_input' = q
          /\ assistant_messages' = Append(assistant_messages, UserMessage(q))
          /\ is_deep' = (classify_query_complexity(q) = "deep")
    /\ memory_at_submit' = assistant_chat_history
    /\ IF is_deep'
       THEN /\ pc' = "schema"
            /\ UNCHANGED <<schema, chat_history_text>>
       ELSE /\ pc' = "plan_reason"
            /\ schema' = "SCHEMA_LITE"
            /\ chat_history_text' = ChatHistoryText(assistant_chat_history)
    /\ UNCHANGED <<vizVars, walkVars, assistant_chat_history, llm_call_count,
                   llm_token_estimate, reasoning, cypher_raw, queries, execVars,
                   enrichVars, graphVars, synthVars, calls, returns, segments>>

\* a context stage without the handler: a raise of the store leaves the turn
SchemaContext_NoHandler ==
    /\ pc = "schema"
    /\ \E outcome \in {"raise", "empty", "counts"} :
          /\ schema' = IF outcome = "counts" THEN "FULL_WITH_LIVE_SUMMARY"
                       ELSE IF outcome = "empty" THEN "FULL" ELSE schema
          /\ calls' = Append(calls, Call("live_stats", 0, <<>>, outcome # "raise"))
          /\ pc' = IF outcome = "raise" THEN "crashed" ELSE "plan_reason"
    /\ chat_history_text' = ChatHistoryText(assistant_chat_history)
    /\ UNCHANGED <<vizVars, walkVars, sessionVars, user_input, is_deep, reasoning,
                   cypher_raw, queries, execVars, enrichVars, graphVars, synthVars,
                   returns, memory_at_submit, segments>>

\* get_graph_schema_context: the live summary is added when the store answers
\* with label counts; a raise is swallowed
SchemaContext ==
    /\ pc = "schema"
    /\ \E outcome \in {"raise", "empty", "counts"} :
          /\ schema' = IF outcome = "counts" THEN "FULL_WITH_LIVE_SUMMARY" ELSE "FULL"
          /\ calls' = Append(calls, Call("live_stats", 0, <<>>, outcome # "raise"))
    /\ chat_history_text' = ChatHistoryText(assistant_chat_history)
    /\ pc' = "plan_reason"
    /\ UNCHANGED <<vizVars, walkVars, sessionVars, user_input, is_deep, reasoning,
                   cypher_raw, queries, execVars, enrichVars, graphVars, synthVars,
                   returns, memory_at_submit, segments>>

\* an exit that stores the clarification request twice
Abort_Twice ==
    /\ assistant_messages' =
           Append(Append(assistant_messages, ClarificationMessage), ClarificationMessage)
    /\ pc' = "aborted"
    /\ UNCHANGED <<assistant_chat_history, execVars>>

\* lines 2000-2008: no queries, so the clarification request is the answer
Abort ==
    /\ assistant_messages' = Append(assistant_messages, ClarificationMessage)
    /\ pc' = "aborted"
    /\ UNCHANGED <<assistant_chat_history, execVars>>

\* plan_investigation, call 1 (lines 1620-1629)
PlanReason ==
    /\ pc = "plan_reason"
    /\ \E outcome \in LlmOutcomes(ReasoningContents) :
          LET result == call_llm(outcome)
              parts  == <<PromptHistory(chat_history_text), user_input>>
          IN  /\ llm_call_count' = CountCall(llm_call_count, outcome)
              /\ llm_token_estimate' =
                     CountTokens(llm_token_estimate, outcome, "reason", parts)
              /\ calls' = Append(calls, Call("llm_reason", 0, <<>>, outcome.ok))
              /\ IF StartsWith(result, LLM_ERROR)
                 THEN /\ reasoning' = <<>>
                      /\ Abort
                 ELSE /\ reasoning' = result
                      /\ pc' = "plan_cypher"
                      /\ UNCHANGED <<assistant_messages, assistant_chat_history, execVars>>
    /\ UNCHANGED <<vizVars, walkVars, user_input, is_deep, schema, chat_history_text,
                   cypher_raw, queries, enrichVars, graphVars, synthVars, returns,
                   memory_at_submit, segments>>

\* the parse of lines 1643-1659 and the test of line 2000
AfterCypher(result) ==
    /\ cypher_raw' = result
    /\ queries' = ParseQueries(result)
    /\ IF queries' = <<>>
       THEN Abort
       ELSE /\ pc' = "exec"
            /\ qi' = 1
            /\ UNCHANGED <<assistant_messages, assistant_chat_history, all_records,
                           query_results_text, all_cypher, had_any_error, fixed_clean>>

\* plan_investigation, call 2 (lines 1632-1644) and what follows it
PlanCypher ==
    /\ pc = "plan_cypher"
    /\ \E outcome \in LlmOutcomes(CypherContents) :
          LET result == call_llm(outcome)
              parts  == <<reasoning, user_input>>
          IN  /\ llm_call_count' = CountCall(llm_call_count, outcome)
              /\ llm_token_estimate' =
                     CountTokens(llm_token_estimate, outcome, "cypher", parts)
              /\ calls' = Append(calls, Call("llm_cypher", 0, <<>>, outcome.ok))
              /\ AfterCypher(result)
    /\ UNCHANGED <<vizVars, walkVars, user_input, is_deep, schema, chat_history_text,
                   reasoning, enrichVars, graphVars, synthVars, returns, memory_at_submit,
                   segments>>

\* a loop that leaves for the enrichment after its first query
Finish_EnrichEarly(ret) ==
    /\ returns' = Append(returns, ret)
    /\ all_records' = all_records \o ret.records
    /\ all_cypher' = Append(all_cypher, ret.executed_query)
    /\ had_any_error' = (had_any_error \/ ret.had_error)
    /\ query_results_text' = Append(query_results_text, QueryResultEntry(qi, ret))
    /\ fixed_clean' = <<>>
    /\ qi' = qi
    /\ pc' = "enrich"

\* a loop that keeps no audit entry and no query text for a failed query
Finish_SkipsFailed(ret) ==
    /\ returns' = Append(returns, ret)
    /\ all_records' = all_records \o ret.records
    /\ had_any_error' = (had_any_error \/ ret.had_error)
    /\ IF ret.had_error /\ ret.records = <<>>
       THEN UNCHANGED <<all_cypher, query_results_text>>
       ELSE /\ all_cypher' = Append(all_cypher, ret.executed_query)
            /\ query_results_text' = Append(query_results_text, QueryResultEntry(qi, ret))
    /\ fixed_clean' = <<>>
    /\ IF qi < Len(queries)
       THEN qi' = qi + 1 /\ pc' = "exec"
       ELSE qi' = qi /\ pc' = "enrich"

\* lines 2025-2036 and the loop step: the returned tuple enters the lists of
\* the turn, and the loop goes to the next query or ends
Finish(ret) ==
    /\ returns' = Append(returns, ret)
    /\ all_records' = all_records \o ret.records
    /\ all_cypher' = Append(all_cypher, ret.executed_query)
    /\ had_any_error' = (had_any_error \/ ret.had_error)
    /\ query_results_text' = Append(query_results_text, QueryResultEntry(qi, ret))
    /\ fixed_clean' = <<>>
    /\ IF qi < Len(queries)
       THEN qi' = qi + 1 /\ pc' = "exec"
       ELSE qi' = qi /\ pc' = "enrich"

\* execute_cypher_with_retry, first attempt (lines 1670-1674)
ExecFirst ==
    /\ pc = "exec"
    /\ \/ \E rows \in QueryResults :
             /\ calls' = Append(calls, Call("run_query", qi, <<>>, TRUE))
             /\ Finish(RetFirstOk(rows, queries[qi]))
       \/ /\ calls' = Append(calls, Call("run_query", qi, <<>>, FALSE))
          /\ pc' = "repair"
          /\ UNCHANGED <<execVars, returns>>
    /\ UNCHANGED <<vizVars, walkVars, sessionVars, planVars, enrichVars, graphVars,
                   synthVars, memory_at_submit, segments>>

\* the repair call and the fence clean-up (lines 1677-1696)
Repair ==
    /\ pc = "repair"
    /\ \E outcome \in LlmOutcomes(FixContents) :
          LET fixed_cypher == call_llm(outcome)
              parts        == <<queries[qi]>>
          IN  /\ llm_call_count' = CountCall(llm_call_count, outcome)
              /\ llm_token_estimate' =
                     CountTokens(llm_token_estimate, outcome, "fix", parts)
              /\ calls' = Append(calls, Call("llm_fix", qi, <<>>, outcome.ok))
              /\ IF StartsWith(fixed_cypher, LLM_ERROR)
                 THEN Finish(RetRepairFailed(queries[qi]))
                 ELSE /\ fixed_clean' = StripFences(fixed_cypher)
                      /\ pc' = "exec_fixed"
                      /\ UNCHANGED <<qi, all_records, query_results_text, all_cypher,
                                     had_any_error, returns>>
    /\ UNCHANGED <<vizVars, walkVars, assistant_messages, assistant_chat_history, planVars,
                   enrichVars, graphVars, synthVars, memory_at_submit, segments>>

\* the second attempt (lines 1699-1703)
ExecSecond ==
    /\ pc = "exec_fixed"
    /\ \/ \E rows \in QueryResults :
             /\ calls' = Append(calls, Call("run_query", qi, <<>>, TRUE))
             /\ Finish(RetSecondOk(rows, fixed_clean))
       \/ /\ calls' = Append(calls, Call("run_query", qi, <<>>, FALSE))
          /\ Finish(RetSecondFailed(queries[qi], fixed_clean))
    /\ UNCHANGED <<vizVars, walkVars, sessionVars, planVars, enrichVars, graphVars,
                   synthVars, memory_at_submit, segments>>

\* enrich_visualization up to line 1745; without missing ids it returns []
EnrichStart ==
    /\ pc = "enrich"
    /\ LET missing_ids == MissingIds(query_results_text, all_records)
       IN  IF missing_ids = {}
           THEN /\ pc' = "visualize"
                /\ UNCHANGED enrichVars
           ELSE /\ ids_to_fetch' \in IdsToFetch(missing_ids)
                /\ enrichment_records' = <<>>
                /\ pc' = "enrich_fetch"
    /\ UNCHANGED <<vizVars, walkVars, sessionVars, planVars, execVars, graphVars,
                   synthVars, historyVars>>

\* a loop that a raising fetch ends: the candidates after it are not visited
EnrichFetch_StopsAtFailure ==
    /\ pc = "enrich_fetch"
    /\ ids_to_fetch # <<>>
    /\ LET eid == Head(ids_to_fetch)
       IN  \E ok \in BOOLEAN :
              /\ calls' = Append(calls, Call("neighborhood", 0, eid, ok))
              /\ enrichment_records' =
                     IF ok THEN enrichment_records \o Neighborhood(eid)
                     ELSE enrichment_records
              /\ ids_to_fetch' = IF ok THEN Tail(ids_to_fetch) ELSE <<>>
    /\ IF ids_to_fetch' = <<>>
       THEN /\ all_records' = all_records \o enrichment_records'
            /\ pc' = "visualize"
       ELSE UNCHANGED <<all_records, pc>>
    /\ UNCHANGED <<vizVars, walkVars, sessionVars, planVars, qi, query_results_text,
                   all_cypher, had_any_error, fixed_clean, graphVars, synthVars, returns,
                   memory_at_submit, segments>>

\* one round of the loop of lines 1746-1756; after the last one the records
\* are returned and line 2040 extends all_records
EnrichFetch ==
    /\ pc = "enrich_fetch"
    /\ ids_to_fetch # <<>>
    /\ LET eid == Head(ids_to_fetch)
       IN  \E ok \in BOOLEAN :
              /\ calls' = Append(calls, Call("neighborhood", 0, eid, ok))
              /\ enrichment_records' =
                     IF ok THEN enrichment_records \o Neighborhood(eid)
                     ELSE enrichment_records
    /\ ids_to_fetch' = Tail(ids_to_fetch)
    /\ IF ids_to_fetch' = <<>>
       THEN /\ all_records' = all_records \o enrichment_records'
            /\ pc' = "visualize"
       ELSE UNCHANGED <<all_records, pc>>
    /\ UNCHANGED <<vizVars, walkVars, sessionVars, planVars, qi, query_results_text,
                   all_cypher, had_any_error, fixed_clean, graphVars, synthVars, returns,
                   memory_at_submit, segments>>

\* lines 2043-2054: the interconnecting edges are fetched without a handler,
\* so a raise of the store leaves the turn
Visualize ==
    /\ pc = "visualize"
    /\ LET ids == CollectNodeIds(all_records)
           build(rel_records) ==
               LET out == create_graph_visualization(all_records \o rel_records, <<>>, {})
               IN  /\ graph_nodes' = out.nodes
                   /\ graph_edges' = out.edges
                   /\ pc' = "synthesize"
       IN  IF all_records = <<>>
           THEN /\ pc' = "synthesize"
                /\ UNCHANGED <<graphVars, calls>>
           ELSE /\ node_ids' = ids
                /\ IF ids = {}
                   THEN /\ build(<<>>)
                        /\ UNCHANGED calls
                   ELSE \/ /\ calls' = Append(calls, Call("relationships", 0, <<>>, TRUE))
                           /\ build(get_relationships_for_nodes(ids))
                        \/ /\ calls' = Append(calls, Call("relationships", 0, <<>>, FALSE))
                           /\ pc' = "crashed"
                           /\ UNCHANGED <<graph_nodes, graph_edges>>
    /\ UNCHANGED <<vizVars, walkVars, sessionVars, planVars, execVars, enrichVars,
                   synthVars, returns, memory_at_submit, segments>>

\* lines 2072-2119: the synthesis call, its parse or the fallback, and the
\* two appends that end the turn
SynthesizeFrom(contents) ==
    /\ pc = "synthesize"
    /\ \E outcome \in LlmOutcomes(contents) :
          LET result == call_llm(outcome)
              parts  == <<user_input, reasoning>>
              usable == result # <<>> /\ ~StartsWith(result, LLM_ERROR)
              parsed == IF usable THEN parse_synthesis_response(result)
                        ELSE [analysis |-> SYNTHESIS_FALLBACK, follow_ups |-> <<>>]
          IN  /\ response_text' = result
              /\ llm_call_count' = CountCall(llm_call_count, outcome)
              /\ llm_token_estimate' =
                     CountTokens(llm_token_estimate, outcome, "synth", parts)
              /\ calls' = Append(calls, Call("llm_synth", 0, <<>>, outcome.ok))
              /\ assistant_messages' =
                     Append(assistant_messages,
                            FindingMessage(parsed.analysis, graph_nodes, graph_edges,
                                           all_cypher, parsed.follow_ups))
    /\ assistant_chat_history' =
           Append(assistant_chat_history, MemoryEntry(user_input, reasoning, all_cypher))
    /\ pc' = "done"
    /\ UNCHANGED <<vizVars, walkVars, planVars, execVars, enrichVars, graphVars, returns,
                   memory_at_submit, segments>>

Synthesize == SynthesizeFrom(SynthesisContents)

Next ==
    \/ Submit
    \/ SchemaContext
    \/ PlanReason
    \/ PlanCypher
    \/ ExecFirst
    \/ Repair
    \/ ExecSecond
    \/ EnrichStart
    \/ EnrichFetch
    \/ Visualize
    \/ Synthesize

Spec == Init /\ [][Next]_vars

(***************************************************************************)
(* The planner's parse on bounded responses: a turn stands right after the *)
(* second call of plan_investigation returned                              *)
(***************************************************************************)
\* the most delimiter-separated segments in one response
MaxSegments == 5

SegmentUniverse == { <<>>, NEWLINE, Q1, <<" ", "q", "2", "\n">> }

\* the response is bare, or its text stands in a code fence
FenceOpen == FENCE \o <<"c", "y", "p", "h", "e", "r", "\n">>

FenceClose == NEWLINE \o FENCE

Wrappings == { <<<<>>, <<>>>>, <<FenceOpen, <<>>>>, <<<<>>, FenceClose>>, <<FenceOpen, FenceClose>> }

PlanOutcomes ==
    {[outcome |-> [ok |-> FALSE, content |-> <<>>], segments |-> <<>>]}
    \cup
    {[outcome  |-> OkContent(w[1] \o Join(QUERY_DELIMITER, segs) \o w[2]),
      segments |-> segs] :
        segs \in SeqsUpTo(SegmentUniverse, MaxSegments),
        w \in {x \in Wrappings : x = <<<<>>, <<>>>> \/ Len(x[1]) + Len(x[2]) > 0}}

\* a fence holds text: an empty body is not wrapped
WellFormed(po) ==
    \/ ~po.outcome.ok
    \/ StripNonEmpty(po.segments) # <<>>
    \/ po.outcome.content = Join(QUERY_DELIMITER, po.segments)

FirstQuestion == <<"S","h","o","w"," ","c","l","a","i","m">>

FirstReasoning == <<"r", "1">>

InitPlan ==
    /\ VizOff
    /\ WalkOff
    /\ \E po \in {x \in PlanOutcomes : WellFormed(x)} :
          LET parts1 == <<PromptHistory(<<>>), FirstQuestion>>
              parts2 == <<FirstReasoning, FirstQuestion>>
              t1 == CountTokens(0, OkContent(FirstReasoning), "reason", parts1)
          IN  /\ cypher_raw = call_llm(po.outcome)
              /\ segments = po.segments
              /\ llm_call_count = CountCall(1, po.outcome)
              /\ llm_token_estimate = CountTokens(t1, po.outcome, "cypher", parts2)
              /\ calls = <<Call("llm_reason", 0, <<>>, TRUE),
                           Call("llm_cypher", 0, <<>>, po.outcome.ok)>>
    /\ assistant_messages = <<UserMessage(FirstQuestion)>>
    /\ assistant_chat_history = <<>>
    /\ pc = "plan_parse"
    /\ user_input = FirstQuestion
    /\ is_deep = FALSE
    /\ schema = "SCHEMA_LITE"
    /\ chat_history_text = <<>>
    /\ reasoning = FirstReasoning
    /\ queries = <<>>
    /\ qi = 0
    /\ all_records = <<>>
    /\ query_results_text = <<>>
    /\ all_cypher = <<>>
    /\ had_any_error = FALSE
    /\ graph_nodes = <<>>
    /\ graph_edges = <<>>
    /\ node_ids = {}
    /\ response_text = <<>>
    /\ fixed_clean = <<>>
    /\ ids_to_fetch = <<>>
    /\ enrichment_records = <<>>
    /\ returns = <<>>
    /\ memory_at_submit = <<>>

\* lines 1643-1659 applied to the text the second call returned
ParseResponse ==
    /\ pc = "plan_parse"
    /\ AfterCypher(cypher_raw)
    /\ UNCHANGED <<vizVars, walkVars, llm_call_count, llm_token_estimate, user_input,
                   is_deep, schema, chat_history_text, reasoning, enrichVars, graphVars,
                   synthVars, historyVars>>

NextPlan == ParseResponse

SpecPlan == InitPlan /\ [][NextPlan]_vars

(***************************************************************************)
(* Enrichment on bounded results: a turn stands right after its one query  *)
(* returned a row of candidate identifiers                                 *)
(***************************************************************************)
\* the most candidate identifiers in the row
MaxCandidates == 5

CandidateId(k) == <<"P", "_", Digit[k]>>

CandidateRow(n, with_node, with_ref) ==
    (IF with_node THEN <<ClaimA>> ELSE <<>>)
    \o (IF with_ref THEN <<StrValue(CLM_1)>> ELSE <<>>)
    \o [k \in 1..n |-> StrValue(CandidateId(k))]

CandidateResults ==
    { IF row = <<>> THEN <<>> ELSE <<row>> :
        row \in { CandidateRow(n, b[1], b[2]) :
                    n \in 0..MaxCandidates, b \in BOOLEAN \X BOOLEAN } }

InitEnrich ==
    /\ VizOff
    /\ WalkOff
    /\ \E rows \in CandidateResults :
          LET ret == RetFirstOk(rows, Q1)
          IN  /\ returns = <<ret>>
              /\ all_records = ret.records
              /\ all_cypher = <<ret.executed_query>>
              /\ had_any_error = ret.had_error
              /\ query_results_text = <<QueryResultEntry(1, ret)>>
    /\ LET parts1 == <<PromptHistory(<<>>), FirstQuestion>>
           parts2 == <<FirstReasoning, FirstQuestion>>
           t1 == CountTokens(0, OkContent(FirstReasoning), "reason", parts1)
       IN  llm_token_estimate = CountTokens(t1, OkContent(Q1), "cypher", parts2)
    /\ llm_call_count = 2
    /\ calls = <<Call("llm_reason", 0, <<>>, TRUE),
                 Call("llm_cypher", 0, <<>>, TRUE),
                 Call("run_query", 1, <<>>, TRUE)>>
    /\ assistant_messages = <<UserMessage(FirstQuestion)>>
    /\ assistant_chat_history = <<>>
    /\ pc = "enrich"
    /\ user_input = FirstQuestion
    /\ is_deep = FALSE
    /\ schema = "SCHEMA_LITE"
    /\ chat_history_text = <<>>
    /\ reasoning = FirstReasoning
    /\ cypher_raw = Q1
    /\ queries = <<Q1>>
    /\ qi = 1
    /\ graph_nodes = <<>>
    /\ graph_edges = <<>>
    /\ node_ids = {}
    /\ response_text = <<>>
    /\ fixed_clean = <<>>
    /\ ids_to_fetch = <<>>
    /\ enrichment_records = <<>>
    /\ memory_at_submit = <<>>
    /\ segments = <<>>

NextEnrich == EnrichStart \/ EnrichFetch

SpecEnrich == InitEnrich /\ [][NextEnrich]_vars

(***************************************************************************)
(* The classifier on bounded questions                                     *)
(***************************************************************************)
\* words without a deep phrase, near misses, and deep phrases in several cases
QuestionCores ==
    { <<"c","l","a","i","m"," ","7">>,
      <<"b","o","b">>,
      <<"l","o","n","g">>,
      <<"n","e","t"," ","w","o","r","k">>,
      <<"n","e","t","w","o","r">>,
      <<"p","e"," ","e","r">>,
      <<"A","L","L"," "," ","C","L","A","I","M","S">>,
      <<"F","a"," ","x">>,
      <<"n","e","t","w","o","r","k">>,
      <<"N","E","T","W","O","R","K">>,
      <<"N","e","t","W","o","r","k">>,
      <<"r","i","n","g">>,
      <<"d","u","r","i","n","g">>,
      <<"H","o","w"," ","M","a","n","y">>,
      <<"a","l","l"," ","c","l","a","i","m","s">>,
      <<"f","a","x">>,
      <<"F","A","X">>,
      <<"S","a","m","e"," ","F","a","x">>,
      <<"p","e","e","r">>,
      <<"S","a","n","c","t","i","o","n","e","d">>,
      <<"H","I","S","T","O","R","Y">>,
      <<"p","r","i","o","r">> }

\* what a question can start with
QuestionPrefixes ==
    { <<>>,
      <<"S","h","o","w"," ">>,
      <<"i","s"," ">> }

\* what a question can end with
QuestionSuffixes ==
    { <<>>,
      <<"s">>,
      <<" ","n","o","w","?">> }

ClassifierQuestions ==
    { p \o c \o s : p \in QuestionPrefixes, c \in QuestionCores, s \in QuestionSuffixes }

InitClassify ==
    /\ VizOff
    /\ WalkOff
    /\ SessionEmpty
    /\ user_input \in {q \in ClassifierQuestions : q # <<>>}
    /\ pc = "classify"
    /\ is_deep = FALSE
    /\ schema = "none"
    /\ chat_history_text = <<>>
    /\ reasoning = <<>>
    /\ cypher_raw = <<>>
    /\ queries = <<>>
    /\ qi = 0
    /\ all_records = <<>>
    /\ query_results_text = <<>>
    /\ all_cypher = <<>>
    /\ had_any_error = FALSE
    /\ graph_nodes = <<>>
    /\ graph_edges = <<>>
    /\ node_ids = {}
    /\ response_text = <<>>
    /\ fixed_clean = <<>>
    /\ ids_to_fetch = <<>>
    /\ enrichment_records = <<>>
    /\ calls = <<>>
    /\ returns = <<>>
    /\ memory_at_submit = <<>>
    /\ segments = <<>>

\* line 1984: the classifier applied to the question
Classify ==
    /\ pc = "classify"
    /\ is_deep' = (classify_query_complexity(user_input) = "deep")
    /\ pc' = "classified"
    /\ UNCHANGED <<vizVars, walkVars, sessionVars, user_input, schema, chat_history_text,
                   reasoning, cypher_raw, queries, execVars, enrichVars, graphVars,
                   synthVars, historyVars>>

NextClassify == Classify

SpecClassify == InitClassify /\ [][NextClassify]_vars

(***************************************************************************)
(* The synthesis step on bounded responses                                 *)
(***************************************************************************)
\* the most lines after the follow-up delimiter
MaxLines == 4

\* a line of the follow-up block: a question, a padded question, a blank line
FollowUpLines == { <<"u">>, <<" ", "v", "\t">>, <<>> }

FindingTexts == { <<>>, <<"F">>, <<"F", "\n", "G", " ">> }

\* what the provider can answer: a finding alone, or a finding, the delimiter
\* and a block of lines; the block may hold the delimiter once more
ResponseContents ==
    FindingTexts
    \cup { f \o FOLLOW_UPS_DELIMITER \o Join(NEWLINE, ls) :
             f \in FindingTexts, ls \in SeqsUpTo(FollowUpLines, MaxLines) }
    \cup { f \o FOLLOW_UPS_DELIMITER \o <<"\n", "u", "\n">> \o FOLLOW_UPS_DELIMITER
             \o <<"\n", "w">> : f \in FindingTexts }
    \cup { LLM_ERROR_TEXT \o FOLLOW_UPS_DELIMITER \o <<"u">> }

\* a turn of one query that found a claim, up to the synthesis call
InitSynthesis ==
    /\ VizOff
    /\ WalkOff
    /\ LET ret == RetFirstOk(<< <<ClaimA>> >>, Q1)
           out == create_graph_visualization(ret.records, <<>>, {})
       IN  /\ returns = <<ret>>
           /\ all_records = ret.records
           /\ all_cypher = <<ret.executed_query>>
           /\ had_any_error = ret.had_error
           /\ query_results_text = <<QueryResultEntry(1, ret)>>
           /\ node_ids = CollectNodeIds(ret.records)
           /\ graph_nodes = out.nodes
           /\ graph_edges = out.edges
    /\ LET parts1 == <<PromptHistory(<<>>), FirstQuestion>>
           parts2 == <<FirstReasoning, FirstQuestion>>
           t1 == CountTokens(0, OkContent(FirstReasoning), "reason", parts1)
       IN  llm_token_estimate = CountTokens(t1, OkContent(Q1), "cypher", parts2)
    /\ llm_call_count = 2
    /\ calls = <<Call("llm_reason", 0, <<>>, TRUE),
                 Call("llm_cypher", 0, <<>>, TRUE),
                 Call("run_query", 1, <<>>, TRUE),
                 Call("relationships", 0, <<>>, TRUE)>>
    /\ assistant_messages = <<UserMessage(FirstQuestion)>>
    /\ assistant_chat_history = <<>>
    /\ pc = "synthesize"
    /\ user_input = FirstQuestion
    /\ is_deep = FALSE
    /\ schema = "SCHEMA_LITE"
    /\ chat_history_text = <<>>
    /\ reasoning = FirstReasoning
    /\ cypher_raw = Q1
    /\ queries = <<Q1>>
    /\ qi = 1
    /\ fixed_clean = <<>>
    /\ ids_to_fetch = <<>>
    /\ enrichment_records = <<>>
    /\ response_text = <<>>
    /\ memory_at_submit = <<>>
    /\ segments = <<>>

SynthesizeAny == SynthesizeFrom(ResponseContents)

NextSynthesis == SynthesizeAny

SpecSynthesis == InitSynthesis /\ [][NextSynthesis]_vars

(***************************************************************************)
(* A chat session: a turn after earlier turns, and Clear Chat              *)
(***************************************************************************)
\* the most completed turns a session starts with
MaxMemory == 6

InitSession ==
    /\ VizOff
    /\ WalkOff
    /\ \E n \in 0..MaxMemory : SessionAfter(n)
    /\ TurnOff("idle")

TurnOver == pc \in {"done", "aborted", "crashed"}

\* the locals of a script run that is over are gone in the next run
NewRun ==
    /\ pc' = "idle"
    /\ user_input' = <<>>
    /\ is_deep' = FALSE
    /\ schema' = "none"
    /\ chat_history_text' = <<>>
    /\ reasoning' = <<>>
    /\ cypher_raw' = <<>>
    /\ queries' = <<>>
    /\ qi' = 0
    /\ all_records' = <<>>
    /\ query_results_text' = <<>>
    /\ all_cypher' = <<>>
    /\ had_any_error' = FALSE
    /\ graph_nodes' = <<>>
    /\ graph_edges' = <<>>
    /\ node_ids' = {}
    /\ response_text' = <<>>
    /\ fixed_clean' = <<>>
    /\ ids_to_fetch' = <<>>
    /\ enrichment_records' = <<>>
    /\ returns' = <<>>
    /\ memory_at_submit' = <<>>
    /\ segments' = <<>>

\* a button that empties the two lists and keeps the usage counters
ClearChat_KeepsCounters ==
    /\ pc = "idle" \/ TurnOver
    /\ assistant_messages' = <<>>
    /\ assistant_chat_history' = <<>>
    /\ UNCHANGED <<llm_call_count, llm_token_estimate>>
    /\ calls' = <<Call("clear_chat", 0, <<>>, TRUE)>>
    /\ NewRun
    /\ UNCHANGED <<vizVars, walkVars>>

\* lines 1915-1920: the Clear Chat button, pressed between two turns; the
\* press stays in the history, which tells a cleared session from a new one
ClearChat ==
    /\ pc = "idle" \/ TurnOver
    /\ assistant_messages' = <<>>
    /\ assistant_chat_history' = <<>>
    /\ llm_call_count' = 0
    /\ llm_token_estimate' = 0
    /\ calls' = <<Call("clear_chat", 0, <<>>, TRUE)>>
    /\ NewRun
    /\ UNCHANGED <<vizVars, walkVars>>

NextSession == Next \/ ClearChat

SpecSession == InitSession /\ [][NextSession]_vars

(***************************************************************************)
(* The scenario walkthrough                                                *)
(***************************************************************************)
\* the most buttons and selections used in a walkthrough
MaxPresses == 10

\* len(SCENARIOS[s]['hops'])
HOPS == <<4, 4, 4, 5>>

ScenarioIds == DOMAIN HOPS

\* max_hop = len(scenario['hops']) - 1   (line 813)
max_hop == HOPS[current_scenario] - 1

InitWalk ==
    /\ VizOff
    /\ WalkOff
    /\ SessionEmpty
    /\ TurnOff("off")

\* a selection that keeps the step of the scenario left
Select_KeepsHop ==
    /\ presses < MaxPresses
    /\ \E selected \in ScenarioIds :
          /\ selected # current_scenario
          /\ current_scenario' = selected
    /\ presses' = presses + 1
    /\ UNCHANGED <<current_hop, vizVars, sessionVars, turnVars>>

\* lines 807-810: another scenario is selected
Select ==
    /\ presses < MaxPresses
    /\ \E selected \in ScenarioIds :
          /\ selected # current_scenario
          /\ current_scenario' = selected
    /\ current_hop' = 0
    /\ presses' = presses + 1
    /\ UNCHANGED <<vizVars, sessionVars, turnVars>>

\* lines 803-805
Reset ==
    /\ presses < MaxPresses
    /\ current_hop' = 0
    /\ presses' = presses + 1
    /\ UNCHANGED <<current_scenario, vizVars, sessionVars, turnVars>>

\* lines 840-842: the button is disabled on the first step
Previous ==
    /\ presses < MaxPresses
    /\ current_hop # 0
    /\ current_hop' = current_hop - 1
    /\ presses' = presses + 1
    /\ UNCHANGED <<current_scenario, vizVars, sessionVars, turnVars>>

\* lines 844-847: the button is shown before the last step only
NextHop ==
    /\ presses < MaxPresses
    /\ current_hop < max_hop
    /\ current_hop' = current_hop + 1
    /\ presses' = presses + 1
    /\ UNCHANGED <<current_scenario, vizVars, sessionVars, turnVars>>

NextWalk == Select \/ Reset \/ Previous \/ NextHop

SpecWalk == InitWalk /\ [][NextWalk]_vars

(***************************************************************************)
(* Properties of the assembler                                             *)
(***************************************************************************)
VizCells == Cells(records)

\* cell k is the first node-valued cell of its identity
FirstOccurrence(k) ==
    /\ IsNode(VizCells[k])
    /\ \A j \in 1..(k - 1) :
          ~(IsNode(VizCells[j]) /\ VizCells[j].element_id = VizCells[k].element_id)

BuiltFrom(k) ==
    \E i \in 1..Len(nodes) :
        nodes[i] = MakeNode(VizCells[k], get_node_label(VizCells[k].labels), root_id)

AtMostOneNodePerIdentity ==
    \A i, j \in 1..Len(nodes) : nodes[i].id = nodes[j].id => i = j

\* C8 as stated: every identity carried by node-valued cells yields exactly one
\* Visualization Node, built from the first occurrence of the identity.
C8_Original ==
    vpc = "returned" =>
        /\ AtMostOneNodePerIdentity
        /\ \A k \in 1..Len(VizCells) : FirstOccurrence(k) => BuiltFrom(k)

\* C8 (amended): the assembler creates at most one Visualization Node per store
\* identity; an identity whose first occurrence is not excluded by an entity
\* filter yields exactly one node, built from that first occurrence alone.
C8_NodeDedup ==
    vpc = "returned" =>
        /\ AtMostOneNodePerIdentity
        /\ \A k \in 1..Len(VizCells) :
              (FirstOccurrence(k)
               /\ ~FilteredOut(entity_filters, get_node_label(VizCells[k].labels)))
              => BuiltFrom(k)

\* two node-valued cells with one identity and different properties were assembled
C8_Witness ==
    /\ vpc = "returned"
    /\ \E k1, k2 \in 1..Len(VizCells) :
          /\ k1 < k2
          /\ FirstOccurrence(k1)
          /\ IsNode(VizCells[k2])
          /\ VizCells[k2].element_id = VizCells[k1].element_id
          /\ VizCells[k2].props # VizCells[k1].props
          /\ BuiltFrom(k1)

RelCells == {k \in 1..Len(VizCells) : IsRel(VizCells[k])}

Triple(rel) == <<rel.start, rel.end, rel.type>>

NodeIdsOf(ns) == {ns[i].id : i \in 1..Len(ns)}

\* the relationship cell k has both endpoints among the assembled nodes
Eligible(k) ==
    /\ VizCells[k].start \in NodeIdsOf(nodes)
    /\ VizCells[k].end \in NodeIdsOf(nodes)

\* the labels the relationship cells of one triple can give an edge
LabelsOf(tr) == {RelLabel(VizCells[k]) : k \in {j \in RelCells : Triple(VizCells[j]) = tr}}

EdgesOf(tr) ==
    {i \in 1..Len(edges) :
        /\ edges[i].source = tr[1]
        /\ edges[i].target = tr[2]
        /\ edges[i].label \in LabelsOf(tr)}

\* C9: an edge-valued cell is in the edge list if and only if both of its
\* endpoint identities are among the assembled nodes, wherever its record
\* stands; no edge has an unknown endpoint and no node is made up for one.
C9_EdgeIffEndpointsKnown ==
    vpc = "returned" =>
        /\ \A k \in RelCells : (EdgesOf(Triple(VizCells[k])) # {}) <=> Eligible(k)
        /\ \A i \in 1..Len(edges) :
              edges[i].source \in NodeIdsOf(nodes) /\ edges[i].target \in NodeIdsOf(nodes)
        /\ NodeIdsOf(nodes) \subseteq
              {VizCells[k].element_id : k \in {j \in 1..Len(VizCells) : IsNode(VizCells[j])}}

\* an edge whose record precedes its endpoints is kept, an orphan edge is dropped
C9_Witness ==
    /\ vpc = "returned"
    /\ \E k \in RelCells :
          /\ Eligible(k)
          /\ \A j \in 1..(k - 1) : ~IsNode(VizCells[j])
          /\ EdgesOf(Triple(VizCells[k])) # {}
    /\ \E k \in RelCells : ~Eligible(k) /\ EdgesOf(Triple(VizCells[k])) = {}

EligibleTriples == {Triple(VizCells[k]) : k \in {j \in RelCells : Eligible(j)}}

\* C10: the edge list holds exactly one Visualization Edge per (source, target,
\* type) triple of the eligible edge cells: repeats collapse, and edges that
\* differ in a component of the triple stay apart.
C10_OneEdgePerTriple ==
    vpc = "returned" =>
        /\ Len(edges) = Cardinality(EligibleTriples)
        /\ \A tr \in EligibleTriples : Cardinality(EdgesOf(tr)) = 1

\* one relationship in two records, in both orientations of its row, next to an
\* edge of another type between the same nodes
C10_Witness ==
    /\ vpc = "returned"
    /\ \E k1, k2, k3 \in RelCells :
          /\ k1 < k2
          /\ Eligible(k1)
          /\ VizCells[k1] = VizCells[k2]
          /\ Triple(VizCells[k3])[1] = Triple(VizCells[k1])[1]
          /\ Triple(VizCells[k3])[2] = Triple(VizCells[k1])[2]
          /\ Triple(VizCells[k3])[3] # Triple(VizCells[k1])[3]
    /\ Len(edges) = 2

(***************************************************************************)
(* Properties of the executor and of the turn                              *)
(***************************************************************************)
\* the positions in calls of the calls of one kind made for query index i
CallsFor(name, i) == {k \in 1..Len(calls) : calls[k].call = name /\ calls[k].qi = i}

\* the k-th run_query call made for query i, if it was made
RunQueryCall(i, k) ==
    LET at == CallsFor("run_query", i)
    IN  CHOOSE c \in at : Cardinality({d \in at : d <= c}) = k

Attempts(i) == Cardinality(CallsFor("run_query", i))

OriginalRaised(i) == Attempts(i) >= 1 /\ ~calls[RunQueryCall(i, 1)].ok

RepairedRaised(i) == Attempts(i) >= 2 /\ ~calls[RunQueryCall(i, 2)].ok

RepairedAccepted(i) == Attempts(i) >= 2 /\ calls[RunQueryCall(i, 2)].ok

\* C1: the executor repairs at most once: no query sees more than 2 run_query
\* calls or more than 1 repair call, and a query whose original and repaired
\* text both raise returns no rows, the error flag and the original text,
\* after exactly 2 run_query calls and exactly 1 repair call.
C1_RepairAtMostOnce ==
    \A i \in 1..Len(queries) :
        /\ Attempts(i) <= 2
        /\ Cardinality(CallsFor("llm_fix", i)) <= 1
        /\ (i <= Len(returns) /\ OriginalRaised(i) /\ RepairedRaised(i)) =>
              /\ returns[i] = Returned(<<>>, queries[i], TRUE)
              /\ Attempts(i) = 2
              /\ Cardinality(CallsFor("llm_fix", i)) = 1
              /\ \A k \in CallsFor("llm_fix", i) :
                    RunQueryCall(i, 1) < k /\ k < RunQueryCall(i, 2)

\* a query has returned after its original and its repaired text both raised
C1_Witness ==
    \E i \in 1..Len(returns) : OriginalRaised(i) /\ RepairedRaised(i)

\* the texts a repair can produce
RepairedTexts == {StripFences(call_llm(o)) : o \in {x \in LlmOutcomes(FixContents) : x.ok}}

\* C2: a query that failed, was repaired and then ran without raising has an
\* audit entry with the repaired text and auto_corrected = true.
C2_RepairedIsFlagged ==
    \A i \in 1..Len(query_results_text) :
        (OriginalRaised(i) /\ RepairedAccepted(i)) =>
            /\ query_results_text[i].cypher \in RepairedTexts
            /\ query_results_text[i].auto_corrected

\* C3: an audit entry is flagged auto_corrected only if the original query
\* raised and the repaired query ran without raising; so an entry whose query
\* ran at once, or whose repair failed, is never flagged.
C3_FlagOnlyIfRepaired ==
    \A i \in 1..Len(query_results_text) :
        query_results_text[i].auto_corrected => (OriginalRaised(i) /\ RepairedAccepted(i))

\* an entry with rows whose query did not raise, and it is not flagged
C3_Witness ==
    \E i \in 1..Len(query_results_text) :
        /\ ~OriginalRaised(i)
        /\ query_results_text[i].result_count > 0
        /\ ~query_results_text[i].auto_corrected

\* C4: a turn that is aborted for want of queries has still appended one
\* memory entry with the question and the reasoning text produced.
C4_MemoryOnAbort ==
    pc = "aborted" =>
        assistant_chat_history =
            Append(memory_at_submit, MemoryEntry(user_input, reasoning, <<>>))

\* C5: whatever external calls fail, a turn that has ended is Completed or
\* Aborted-NoQueries, never left by an uncaught error.
C5_NoUncaughtError ==
    pc \in {"done", "aborted", "crashed"} => pc \in {"done", "aborted"}

Fetches == SelectSeq(calls, LAMBDA c : c.call = "neighborhood")

\* the records the executor returned, before any enrichment
RECURSIVE ReturnedRecords(_)
ReturnedRecords(rets) ==
    IF rets = <<>> THEN <<>> ELSE Head(rets).records \o ReturnedRecords(Tail(rets))

\* the candidates of the turn that no returned node resolves
MissingAtEnrich == MissingIds(query_results_text, ReturnedRecords(returns))

EnrichmentOver == pc \in {"visualize", "synthesize", "done", "crashed"}

\* C7: enrichment issues at most 5 neighborhood fetches per turn however many
\* candidates are missing, each for a distinct missing identifier, and none
\* when no candidate is missing.
C7_AtMostFiveFetches ==
    LET missing == MissingAtEnrich
        fetched == Fetches
    IN  /\ Len(fetched) <= 5
        /\ \A k \in 1..Len(fetched) : fetched[k].eid \in missing
        /\ \A j, k \in 1..Len(fetched) : j # k => fetched[j].eid # fetched[k].eid
        /\ missing = {} => fetched = <<>>
        /\ EnrichmentOver => Len(fetched) = Min(Cardinality(missing), 5)

\* more than 5 candidates were missing and 5 fetches were issued
C7_Witness ==
    /\ EnrichmentOver
    /\ Cardinality(MissingAtEnrich) > 5
    /\ Len(Fetches) = 5

(***************************************************************************)
(* The assembler called twice                                              *)
(***************************************************************************)
Indices(n) == [k \in 1..n |-> k]

\* what the arguments fix: a node for the first occurrence of each identity
\* that the filter lets through, in the order of the records, and an edge for
\* the first relationship of each triple whose endpoints are both among them
Expected(filters) ==
    LET cells == VizCells
        all   == Indices(Len(cells))
        first(k) == /\ IsNode(cells[k])
                    /\ \A j \in 1..(k - 1) :
                          ~(IsNode(cells[j]) /\ cells[j].element_id = cells[k].element_id)
        node_order == SelectSeq(all, LAMBDA k :
                          /\ first(k)
                          /\ ~FilteredOut(filters, get_node_label(cells[k].labels)))
        ids == {cells[node_order[i]].element_id : i \in 1..Len(node_order)}
        ok(k) == IsRel(cells[k]) /\ cells[k].start \in ids /\ cells[k].end \in ids
        edge_order == SelectSeq(all, LAMBDA k :
                          /\ ok(k)
                          /\ \A j \in 1..(k - 1) :
                                ~(ok(j) /\ Triple(cells[j]) = Triple(cells[k])))
    IN  [nodes |-> [i \in 1..Len(node_order) |->
                       MakeNode(cells[node_order[i]],
                                get_node_label(cells[node_order[i]].labels), root_id)],
         edges |-> [i \in 1..Len(edge_order) |-> MakeEdge(cells[edge_order[i]])]]

\* C11 as stated: a second call on the same records and root id gives the
\* lists of the first call, element for element.
C11_Original ==
    vpc = "rerun" => rerun_nodes = nodes /\ rerun_edges = edges

\* C11 (amended): a second call on the same records, root id and entity
\* filters gives the lists of the first call, element for element and in the
\* same order; each list is fixed by the arguments: nodes in the order of the
\* first occurrences, edges in the order of the first eligible relationships.
C11_SameArgumentsSameLists ==
    /\ vpc \in {"returned", "rerun"} =>
          LET first_call == Expected(entity_filters)
          IN  nodes = first_call.nodes /\ edges = first_call.edges
    /\ vpc = "rerun" =>
          LET second_call == Expected(rerun_filters)
          IN  /\ rerun_nodes = second_call.nodes
              /\ rerun_edges = second_call.edges
              /\ rerun_filters = entity_filters =>
                    rerun_nodes = nodes /\ rerun_edges = edges

\* a second call with the arguments of the first gave two nodes and two edges
C11_Witness ==
    /\ vpc = "rerun"
    /\ rerun_filters = entity_filters
    /\ Len(rerun_nodes) >= 2
    /\ Len(rerun_edges) >= 2

(***************************************************************************)
(* The end of a turn                                                       *)
(***************************************************************************)
CallsOf(name) == SelectSeq(calls, LAMBDA c : c.call = name)

SynthesisFailed == \E k \in 1..Len(calls) : calls[k].call = "llm_synth" /\ ~calls[k].ok

LastMessage == assistant_messages[Len(assistant_messages)]

\* the query texts the executor returned, in order
ExecutedQueries == [i \in 1..Len(returns) |-> returns[i].executed_query]

\* C12: when the synthesis call errors the turn still completes; the finding
\* is the fixed fallback message without follow-ups, and it is stored with
\* the graph and the executed queries the turn built before the call.
C12_SynthesisFallback ==
    (SynthesisFailed /\ pc # "synthesize") =>
        /\ pc = "done"
        /\ LastMessage.role = "assistant"
        /\ LastMessage.content = SYNTHESIS_FALLBACK
        /\ LastMessage.follow_ups = <<>>
        /\ LastMessage.graph_nodes = graph_nodes
        /\ LastMessage.graph_edges = graph_edges
        /\ LastMessage.cypher = Join(<<"\n", "-", "-", "-", "\n">>, ExecutedQueries)
        /\ all_cypher = ExecutedQueries

\* the synthesis call failed in a turn that had built nodes and edges
C12_Witness ==
    /\ pc = "done"
    /\ SynthesisFailed
    /\ graph_nodes # <<>>
    /\ graph_edges # <<>>
    /\ Len(all_cypher) = 2

\* C13: a turn that reaches Completed has appended exactly one memory entry
\* {question, reasoning, first executed query} to the memory it started
\* with, whether the synthesis call succeeded or fell back.
C13_OneEntryPerCompletedTurn ==
    pc = "done" =>
        /\ Len(assistant_chat_history) = Len(memory_at_submit) + 1
        /\ SubSeq(assistant_chat_history, 1, Len(memory_at_submit)) = memory_at_submit
        /\ assistant_chat_history[Len(assistant_chat_history)] =
               [question  |-> user_input,
                reasoning |-> reasoning,
                cypher    |-> ExecutedQueries[1]]

\* a turn of two queries, the first one repaired, completed on the fallback
\* with an earlier entry in memory
C13_Witness ==
    /\ pc = "done"
    /\ SynthesisFailed
    /\ memory_at_submit # <<>>
    /\ Len(returns) = 2
    /\ returns[1].executed_query # queries[1]
    /\ returns[1].executed_query # returns[2].executed_query

PlanningOver == pc \notin {"idle", "schema", "plan_reason", "plan_cypher"}

\* C14: a turn whose planner returned no usable query is Aborted-NoQueries;
\* it has emitted exactly one clarification request after the question, and
\* has run no planned query, repair call, enrichment fetch, relationship
\* fetch, assembly or synthesis call.
C14_AbortSkipsTheRest ==
    /\ (PlanningOver /\ queries = <<>>) => pc = "aborted"
    /\ pc = "aborted" =>
          /\ queries = <<>>
          /\ assistant_messages =
                 PriorMessages(Len(memory_at_submit))
                 \o <<UserMessage(user_input), ClarificationMessage>>
          /\ \A k \in 1..Len(calls) :
                calls[k].call \in {"live_stats", "llm_reason", "llm_cypher"}
          /\ returns = <<>>
          /\ all_records = <<>>
          /\ query_results_text = <<>>
          /\ all_cypher = <<>>
          /\ enrichment_records = <<>>
          /\ graph_nodes = <<>>
          /\ graph_edges = <<>>

\* a deep question was planned up to the second call, which gave no query
C14_Witness ==
    /\ pc = "aborted"
    /\ is_deep
    /\ reasoning # <<>>
    /\ CallsOf("llm_cypher") # <<>>

\* the audit entry of a query that ran at once and found nothing
CleanEmptyEntry(i) == QueryResultEntry(i, RetFirstOk(<<>>, queries[i]))

ExecutionOver == pc \in {"enrich", "enrich_fetch", "visualize", "synthesize", "done"}

\* C15: a query whose original and repaired attempt both failed contributes
\* no rows and its audit entry is marked failed (it differs from the entry of
\* a query that ran and found nothing), and the other planned queries are
\* still executed before the rest of the pipeline runs.
C15_FailedQueryIsMarked ==
    /\ \A i \in 1..Len(query_results_text) :
          (OriginalRaised(i) /\ RepairedRaised(i)) =>
              /\ query_results_text[i].result_count = 0
              /\ returns[i].records = <<>>
              /\ query_results_text[i] # CleanEmptyEntry(i)
    /\ ExecutionOver => Len(returns) = Len(queries)

(***************************************************************************)
(* The classifier                                                          *)
(***************************************************************************)
\* str.upper() and str.swapcase() on the letters of the questions
UpperChar(c) ==
    IF \E i \in 1..Len(LOWER) : LOWER[i] = c
    THEN UPPER[CHOOSE i \in 1..Len(LOWER) : LOWER[i] = c]
    ELSE c

SwapChar(c) == IF UpperChar(c) # c THEN UpperChar(c) ELSE LowerChar(c)

\* phrase p stands in question q at offset i, letter case apart
PhraseAt(q, p, i) == \A j \in 1..Len(p) : LowerChar(q[i + j]) = p[j]

HasDeepPhrase(q) ==
    \E k \in 1..Len(deep_patterns) :
        \E i \in 0..(Len(q) - Len(deep_patterns[k])) : PhraseAt(q, deep_patterns[k], i)

\* C16: the classifier answers deep exactly when the lower-cased question
\* contains a deep-indicator phrase as a substring, and the answer is the
\* same for the question in upper case, in lower case and with every letter's
\* case swapped.
C16_DeepIffPhrase ==
    pc = "classified" =>
        /\ is_deep <=> HasDeepPhrase(user_input)
        /\ classify_query_complexity(user_input) \in {"deep", "simple"}
        /\ \A q \in { [i \in 1..Len(user_input) |-> UpperChar(user_input[i])],
                      [i \in 1..Len(user_input) |-> LowerChar(user_input[i])],
                      [i \in 1..Len(user_input) |-> SwapChar(user_input[i])] } :
              (classify_query_complexity(q) = "deep") <=> is_deep

\* a question was classified deep whose phrase is not in lower case: as
\* typed, the question contains no phrase of the set
C16_Witness ==
    /\ pc = "classified"
    /\ is_deep
    /\ \A k \in 1..Len(deep_patterns) : ~Contains(user_input, deep_patterns[k])

(***************************************************************************)
(* The order of the stages                                                 *)
(***************************************************************************)
\* the stage an external call belongs to
CallStage(c) ==
    IF c.call = "live_stats" THEN 1
    ELSE IF c.call = "llm_reason" THEN 2
    ELSE IF c.call = "llm_cypher" THEN 3
    ELSE IF c.call \in {"run_query", "llm_fix"} THEN 4
    ELSE IF c.call = "neighborhood" THEN 5
    ELSE IF c.call = "relationships" THEN 6
    ELSE 7

\* the stage a turn is in; a turn that ended is in none
PcStage(p) ==
    IF p = "idle" THEN 0
    ELSE IF p = "schema" THEN 1
    ELSE IF p = "plan_reason" THEN 2
    ELSE IF p = "plan_cypher" THEN 3
    ELSE IF p \in {"exec", "repair", "exec_fixed"} THEN 4
    ELSE IF p \in {"enrich", "enrich_fetch"} THEN 5
    ELSE IF p = "visualize" THEN 6
    ELSE IF p = "synthesize" THEN 7
    ELSE 8

\* the calls made for query i, in order
QueryCalls(i) == SelectSeq(calls, LAMBDA c : CallStage(c) = 4 /\ c.qi = i)

\* run_query, then at most a repair call, then at most a second run_query
RepairInline(cs) ==
    /\ Len(cs) <= 3
    /\ \A k \in 1..Len(cs) : cs[k].call = (IF k = 2 THEN "llm_fix" ELSE "run_query")
    /\ Len(cs) >= 2 => ~cs[1].ok
    /\ Len(cs) = 3 => cs[2].ok

\* C17: the external calls of a turn follow the order of the stages: context,
\* reasoning, query generation, the planned queries in plan order each with
\* its repair inline, enrichment, interconnecting edges, synthesis, and then
\* the two appends; no call belongs to a stage later than the one the turn
\* is in, and a stage is entered only when the one before it has finished.
C17_StagesInOrder ==
    /\ \A j, k \in 1..Len(calls) :
          j < k => /\ CallStage(calls[j]) <= CallStage(calls[k])
                   /\ (CallStage(calls[j]) = 4 /\ CallStage(calls[k]) = 4) =>
                          calls[j].qi <= calls[k].qi
                   /\ CallStage(calls[j]) \in {1, 2, 3, 6, 7} =>
                          CallStage(calls[j]) < CallStage(calls[k])
    /\ \A k \in 1..Len(calls) :
          /\ CallStage(calls[k]) <= PcStage(pc)
          /\ CallStage(calls[k]) = 4 => calls[k].qi \in 1..Len(queries)
    /\ \A i \in 1..Len(queries) : RepairInline(QueryCalls(i))
    /\ (CallsOf("live_stats") # <<>>) => is_deep
    /\ (is_deep /\ PcStage(pc) >= 2) => Len(CallsOf("live_stats")) = 1
    /\ PcStage(pc) >= 3 => Len(CallsOf("llm_reason")) = 1
    /\ pc = "exec" => Len(returns) = qi - 1
    /\ pc \in {"repair", "exec_fixed"} => Len(returns) = qi - 1
    /\ pc \in {"enrich", "enrich_fetch", "visualize", "synthesize", "done", "crashed"} =>
          /\ Len(returns) = Len(queries)
          /\ Len(CallsOf("llm_cypher")) = 1
          /\ \A i \in 1..Len(queries) : QueryCalls(i) # <<>>
    /\ pc = "synthesize" => ids_to_fetch = <<>>
    /\ pc = "done" =>
          /\ calls[Len(calls)].call = "llm_synth"
          /\ LastMessage.role = "assistant"
          /\ Len(assistant_chat_history) = Len(memory_at_submit) + 1
    /\ pc # "done" => assistant_chat_history = memory_at_submit \/ pc = "idle"

\* a deep turn of two queries went through every stage, with a repair, an
\* enrichment fetch and the fetch of the interconnecting edges
C17_Witness ==
    /\ pc = "done"
    /\ is_deep
    /\ Len(queries) = 2
    /\ CallsOf("llm_fix") # <<>>
    /\ CallsOf("neighborhood") # <<>>
    /\ CallsOf("relationships") # <<>>

\* the positions from which the handler has a step left
RunningPcs ==
    {"idle", "schema", "plan_reason", "plan_cypher", "exec", "repair", "exec_fixed",
     "enrich", "enrich_fetch", "visualize", "synthesize"}

\* a bound on the steps a turn has left
TurnMeasure ==
    LET left == 3 * (Len(queries) - qi + 1)
    IN  IF pc = "idle" THEN 100
        ELSE IF pc = "schema" THEN 99
        ELSE IF pc = "plan_reason" THEN 98
        ELSE IF pc = "plan_cypher" THEN 97
        ELSE IF pc = "exec" THEN 10 + left
        ELSE IF pc = "repair" THEN 9 + left
        ELSE IF pc = "exec_fixed" THEN 8 + left
        ELSE IF pc = "enrich" THEN 9
        ELSE IF pc = "enrich_fetch" THEN 2 + Len(ids_to_fetch)
        ELSE IF pc = "visualize" THEN 2
        ELSE IF pc = "synthesize" THEN 1
        ELSE 0

\* every step brings the turn nearer to its end and never back to an
\* earlier stage
TurnAdvances ==
    [][TurnMeasure' < TurnMeasure /\ PcStage(pc') >= PcStage(pc)]_vars

\* C18: every turn terminates, assuming every external call returns or
\* fails: each step brings the turn nearer to its end, none re-enters an
\* earlier stage, and a step that ends the turn ends it Completed or
\* Aborted-NoQueries.
C18_EndsCompletedOrAborted ==
    [][/\ TurnMeasure' < TurnMeasure
       /\ PcStage(pc') >= PcStage(pc)
       /\ pc' \notin RunningPcs => pc' \in {"done", "aborted"}]_vars

\* C19: the session-scoped state (conversational memory, usage counters) is
\* changed only by the step that ends a turn, and by no step inside it.
C19_SessionStateFrame ==
    [][(\/ assistant_chat_history' # assistant_chat_history
        \/ llm_call_count' # llm_call_count
        \/ llm_token_estimate' # llm_token_estimate)
       => pc' \in {"done", "aborted"}]_vars

\* the part of C19 about the conversational memory alone
MemoryChangesAtTurnEnd ==
    [][assistant_chat_history' # assistant_chat_history => pc' = "done"]_vars

(***************************************************************************)
(* The executor when the repair call fails                                 *)
(***************************************************************************)
RepairCallFailed(i) == \E k \in CallsFor("llm_fix", i) : ~calls[k].ok

\* C20: when the original query raises and the repair call itself fails, the
\* executor returns no rows, the original text and the error flag, after
\* exactly 1 run_query call and 1 model call, and makes no second store call.
C20_RepairCallFailure ==
    \A i \in 1..Len(queries) :
        (OriginalRaised(i) /\ RepairCallFailed(i)) =>
            /\ Attempts(i) = 1
            /\ Cardinality(CallsFor("llm_fix", i)) = 1
            /\ i <= Len(returns)
            /\ returns[i] = Returned(<<>>, queries[i], TRUE)
            /\ query_results_text[i].cypher = queries[i]
            /\ query_results_text[i].result_count = 0

\* the repair call failed for the first of two queries, and the turn went on
C20_Witness ==
    /\ Len(queries) = 2
    /\ OriginalRaised(1)
    /\ RepairCallFailed(1)
    /\ Len(returns) = 2

(***************************************************************************)
(* Failures inside the planner and the enrichment                          *)
(***************************************************************************)
ReasoningFailed == \E k \in 1..Len(calls) : calls[k].call = "llm_reason" /\ ~calls[k].ok

\* C21: when the reasoning call of plan_investigation fails, the planner
\* returns the empty plan (empty reasoning, no queries) to the orchestrator
\* without raising, and the query-generation call is never made.
C21_ReasoningFailureGivesEmptyPlan ==
    ReasoningFailed =>
        /\ reasoning = <<>>
        /\ queries = <<>>
        /\ cypher_raw = <<>>
        /\ CallsOf("llm_cypher") = <<>>
        /\ Len(CallsOf("llm_reason")) = 1
        /\ pc = "aborted"

\* the reasoning call of a deep question failed
C21_Witness ==
    /\ ReasoningFailed
    /\ is_deep
    /\ pc = "aborted"

\* the rows of the fetches that the store answered, in the order of the calls
RECURSIVE FetchedRows(_)
FetchedRows(fetched) ==
    IF fetched = <<>> THEN <<>>
    ELSE (IF Head(fetched).ok THEN Neighborhood(Head(fetched).eid) ELSE <<>>)
         \o FetchedRows(Tail(fetched))

\* the number of candidates enrich_visualization selects
Selected == Min(Cardinality(MissingAtEnrich), MAX_ENRICH)

\* C22: a neighborhood fetch that raises is skipped: the fetches of the
\* candidates selected after it are still issued, the rows of every fetch
\* that succeeded are accumulated in the order of the calls, and the function
\* returns them to the orchestrator.
C22_FailedFetchIsSkipped ==
    LET fetched == Fetches
    IN  /\ pc \in {"enrich", "enrich_fetch", "visualize"}
        /\ pc = "enrich_fetch" =>
              /\ ids_to_fetch # <<>>
              /\ Len(fetched) + Len(ids_to_fetch) = Selected
              /\ enrichment_records = FetchedRows(fetched)
        /\ pc = "visualize" =>
              /\ Len(fetched) = Selected
              /\ fetched # <<>> => enrichment_records = FetchedRows(fetched)
              /\ all_records = ReturnedRecords(returns) \o FetchedRows(fetched)

\* the first fetch raised, a later one brought rows, and enrichment returned
C22_Witness ==
    /\ pc = "visualize"
    /\ Len(Fetches) >= 3
    /\ ~Fetches[1].ok
    /\ Fetches[Len(Fetches)].ok
    /\ Neighborhood(Fetches[Len(Fetches)].eid) # <<>>
    /\ all_records = ReturnedRecords(returns) \o Neighborhood(Fetches[Len(Fetches)].eid)

(***************************************************************************)
(* The identities passed to the interconnecting-edge fetch                 *)
(***************************************************************************)
\* the store identities of the nodes among the records of the turn
NodeIdentities(recs) == {c.element_id : c \in {v \in CellSet(recs) : IsNode(v)}}

EdgeIdentities(recs) == {c.element_id : c \in {v \in CellSet(recs) : IsRel(v)}}

EdgesFetched == CallsOf("relationships") # <<>>

\* C23: the identity set passed to get_relationships_for_nodes is exactly the
\* set of store identities of the nodes in the primary and enrichment records
\* of the turn: every node identity, and no identity of an edge.
C23_ExactlyTheNodeIdentities ==
    EdgesFetched =>
        /\ node_ids = NodeIdentities(all_records)
        /\ node_ids \cap EdgeIdentities(all_records) = {}

(***************************************************************************)
(* The parse of the synthesis response                                     *)
(***************************************************************************)
\* the positions at which the follow-up delimiter starts in s
DelimiterAt(s) ==
    {p \in 1..Len(s) :
        /\ p + Len(FOLLOW_UPS_DELIMITER) - 1 <= Len(s)
        /\ \A j \in 1..Len(FOLLOW_UPS_DELIMITER) : s[p + j - 1] = FOLLOW_UPS_DELIMITER[j]}

\* s without the white space at its two ends
Trimmed(s) ==
    LET inked == {i \in 1..Len(s) : s[i] \notin WHITESPACE}
    IN  IF inked = {} THEN <<>> ELSE SubSeq(s, SetMin(inked), SetMax(inked))

\* the lines of s
RECURSIVE LinesOf(_)
LinesOf(s) ==
    LET breaks == {i \in 1..Len(s) : s[i] = "\n"}
    IN  IF breaks = {} THEN <<s>>
        ELSE <<SubSeq(s, 1, SetMin(breaks) - 1)>>
             \o LinesOf(SubSeq(s, SetMin(breaks) + 1, Len(s)))

\* the non-empty trimmed lines after the first delimiter, in order
LinesAfterDelimiter(s) ==
    LET p     == SetMin(DelimiterAt(s))
        lines == LinesOf(SubSeq(s, p + Len(FOLLOW_UPS_DELIMITER), Len(s)))
        inked == SelectSeq([k \in 1..Len(lines) |-> k],
                           LAMBDA k : Trimmed(lines[k]) # <<>>)
    IN  [i \in 1..Len(inked) |-> Trimmed(lines[inked[i]])]

Parsed == pc = "done" /\ response_text # <<>> /\ ~StartsWith(response_text, LLM_ERROR)

\* C24: parse_synthesis_response splits on the first follow-up delimiter.
\* Without a delimiter the trimmed response is the finding and there are no
\* follow-ups; with one, the finding is the trimmed text before it and the
\* follow-ups are the first at most 3 non-empty trimmed lines after it, in
\* order; the list has 0 to 3 entries.
C24_ParseSynthesis ==
    Parsed =>
        /\ Len(LastMessage.follow_ups) \in 0..3
        /\ IF DelimiterAt(response_text) = {}
           THEN /\ LastMessage.content = Trimmed(response_text)
                /\ LastMessage.follow_ups = <<>>
           ELSE LET p     == SetMin(DelimiterAt(response_text))
                    after == LinesAfterDelimiter(response_text)
                IN  /\ LastMessage.content = Trimmed(SubSeq(response_text, 1, p - 1))
                    /\ LastMessage.follow_ups =
                           SubSeq(after, 1, IF Len(after) < 3 THEN Len(after) ELSE 3)

\* a response with four questions after the delimiter was parsed into the
\* first three of them
C24_Witness ==
    /\ Parsed
    /\ DelimiterAt(response_text) # {}
    /\ Len(LinesAfterDelimiter(response_text)) = 4
    /\ LastMessage.follow_ups = SubSeq(LinesAfterDelimiter(response_text), 1, 3)

(***************************************************************************)
(* The conversational memory                                               *)
(***************************************************************************)
\* the digest lines of the entries from..to of a memory, oldest first
RECURSIVE DigestOf(_, _, _)
DigestOf(memory, from, to) ==
    IF to < from THEN <<>>
    ELSE DigestOf(memory, from, to - 1)
         \o <<"Q", ":", " ">> \o memory[to].question
         \o <<"\n", "A", "p", "p", "r", "o", "a", "c", "h", ":", " ">>
         \o memory[to].reasoning \o <<"\n", "\n">>

DigestBuilt == pc \notin {"idle", "schema"}

\* C25: the digest given to the planner is built from the 5 most recent
\* memory entries only (all of them when there are fewer), oldest first, and
\* is the no-prior-context sentinel exactly when the memory is empty.
C25_DigestOfLastFive ==
    DigestBuilt =>
        LET n     == Len(memory_at_submit)
            first == IF n > 5 THEN n - 4 ELSE 1
        IN  /\ chat_history_text = DigestOf(memory_at_submit, first, n)
            /\ n > 0 => PromptHistory(chat_history_text) = chat_history_text
            /\ n = 0 <=> PromptHistory(chat_history_text) = NO_PRIOR_CONTEXT

\* a question asked with six entries in memory: the digest has the second
\* entry and not the first
C25_Witness ==
    /\ pc = "plan_cypher"
    /\ Len(memory_at_submit) = 6
    /\ Contains(chat_history_text, <<"Q", ":", " ">> \o memory_at_submit[2].question)
    /\ ~Contains(chat_history_text, <<"Q", ":", " ">> \o memory_at_submit[1].question)

Cleared == calls # <<>> /\ calls[1].call = "clear_chat"

\* C26: between resets the memory only grows by appends: every step either
\* leaves it as it is or adds one entry at its end, and it is emptied only
\* by Clear Chat, which also empties the message list and sets both usage
\* counters to 0; no other step removes or rewrites an entry.
C26_MemoryGrowsUntilCleared ==
    [][ /\ ClearChat =>
              /\ assistant_chat_history' = <<>>
              /\ assistant_messages' = <<>>
              /\ llm_call_count' = 0
              /\ llm_token_estimate' = 0
        /\ ~ClearChat =>
              \/ assistant_chat_history' = assistant_chat_history
              \/ /\ Len(assistant_chat_history') = Len(assistant_chat_history) + 1
                 /\ SubSeq(assistant_chat_history', 1, Len(assistant_chat_history)) =
                        assistant_chat_history
                 /\ pc' = "done" ]_vars

\* a cleared session answered the next question: the memory has that one
\* entry, the messages are the question and the finding, and the counter
\* counts the three model calls of the turn from 0
C26_Witness ==
    /\ Cleared
    /\ pc = "done"
    /\ Len(assistant_chat_history) = 1
    /\ Len(assistant_messages) = 2
    /\ llm_call_count = 3

(***************************************************************************)
(* The schema context                                                      *)
(***************************************************************************)
LiveStatsCalls == CallsOf("live_stats")

ContextOver == pc \notin {"idle", "schema"}

\* C27: the simple tier takes its schema without store access; in the deep
\* tier a failing live-statistics call is swallowed: the schema is the
\* static text and guide without the live summary, and the turn goes on to
\* planning.
C27_SchemaContextDegrades ==
    /\ (ContextOver /\ ~is_deep) =>
          /\ schema = "SCHEMA_LITE"
          /\ LiveStatsCalls = <<>>
    /\ (ContextOver /\ is_deep) =>
          /\ Len(LiveStatsCalls) = 1
          /\ calls[1].call = "live_stats"
          /\ ~calls[1].ok => schema = "FULL"
          /\ schema \in {"FULL", "FULL_WITH_LIVE_SUMMARY"}
          /\ Len(calls) = 1 => pc = "plan_reason"
    /\ pc = "crashed" => calls[Len(calls)].call = "relationships"

\* a deep question whose live-statistics call failed was answered
C27_Witness ==
    /\ pc = "done"
    /\ is_deep
    /\ ~LiveStatsCalls[1].ok
    /\ schema = "FULL"
    /\ graph_nodes # <<>>

(***************************************************************************)
(* The external calls of a turn                                            *)
(***************************************************************************)
Count(name) == Len(CallsOf(name))

ModelCalls == Count("llm_reason") + Count("llm_cypher") + Count("llm_fix") + Count("llm_synth")

\* C28: a turn makes at most 2 planning model calls, at most one repair call
\* per planned query (at most 2), at most 1 synthesis call, so at most 5
\* model calls; at most 2 run_query calls per planned query (at most 4); at
\* most 5 enrichment fetches and at most 1 interconnecting-edge fetch.
C28_CallsPerTurnAreBounded ==
    /\ Count("llm_reason") <= 1
    /\ Count("llm_cypher") <= 1
    /\ \A i \in 1..Len(queries) : Cardinality(CallsFor("llm_fix", i)) <= 1
    /\ \A k \in 1..Len(calls) :
          calls[k].call \in {"llm_fix", "run_query"} => calls[k].qi \in 1..Len(queries)
    /\ Len(queries) <= 2
    /\ Count("llm_fix") <= 2
    /\ Count("llm_synth") <= 1
    /\ ModelCalls <= 5
    /\ \A i \in 1..Len(queries) : Cardinality(CallsFor("run_query", i)) <= 2
    /\ Count("run_query") <= 4
    /\ Count("neighborhood") <= 5
    /\ Count("relationships") <= 1
    /\ Count("live_stats") <= 1

\* a turn that made 5 model calls, 4 run_query calls, an enrichment fetch and
\* the interconnecting-edge fetch
C28_Witness ==
    /\ pc = "done"
    /\ ModelCalls = 5
    /\ Count("run_query") = 4
    /\ Count("neighborhood") = 1
    /\ Count("relationships") = 1

(***************************************************************************)
(* The audit lists of the execute stage                                    *)
(***************************************************************************)
\* the number of rows the queries before query i returned
RECURSIVE RowsBefore(_)
RowsBefore(i) == IF i <= 1 THEN 0 ELSE RowsBefore(i - 1) + Len(returns[i - 1].records)

\* C29: after the execute stage the executed-query list and the audit list
\* have exactly one entry per planned query, in plan order, failed queries
\* included; entry i holds the text returned for query i (the repaired text
\* when the repaired query ran, the planned text otherwise), and its
\* result_count is the number of rows query i added to the records.
C29_OneAuditEntryPerQuery ==
    /\ Len(all_cypher) = Len(returns)
    /\ Len(query_results_text) = Len(returns)
    /\ ExecutionOver \/ pc = "crashed" =>
          /\ Len(all_cypher) = Len(queries)
          /\ Len(ReturnedRecords(returns)) <= Len(all_records)
          /\ SubSeq(all_records, 1, Len(ReturnedRecords(returns))) = ReturnedRecords(returns)
    /\ \A i \in 1..Len(returns) :
          LET entry == query_results_text[i]
              rows  == SubSeq(ReturnedRecords(returns), RowsBefore(i) + 1,
                              RowsBefore(i) + entry.result_count)
          IN  /\ entry.query_index = i
              /\ entry.cypher = all_cypher[i]
              /\ all_cypher[i] = returns[i].executed_query
              /\ IF RepairedAccepted(i)
                 THEN all_cypher[i] \in RepairedTexts
                 ELSE all_cypher[i] = queries[i]
              /\ rows = returns[i].records
              /\ (OriginalRaised(i) /\ ~RepairedAccepted(i)) => entry.result_count = 0

\* two planned queries: the first failed twice, the second was repaired and
\* returned a row; both have their entry
C29_Witness ==
    /\ pc = "enrich"
    /\ Len(queries) = 2
    /\ OriginalRaised(1) /\ RepairedRaised(1)
    /\ RepairedAccepted(2)
    /\ query_results_text[1].result_count = 0
    /\ query_results_text[2].result_count = 1
    /\ all_cypher[1] # all_cypher[2]

(***************************************************************************)
(* The scenario walkthrough                                                *)
(***************************************************************************)
HopInRange == current_hop \in 0..(HOPS[current_scenario] - 1)

\* C30: after any sequence of Previous, Next, Reset and scenario selections
\* current_hop is within 0..(number of hops of the current scenario - 1);
\* selecting another scenario and pressing Reset set current_hop to 0.
C30_HopStaysInRange ==
    /\ []HopInRange
    /\ [][ /\ current_scenario' # current_scenario => current_hop' = 0
           /\ Reset => current_hop' = 0
           /\ current_hop' \in {0, current_hop - 1, current_hop + 1} ]_vars

\* the last step of the longest scenario, where Next is no longer offered,
\* was reached after another scenario had been walked through
C30_Witness ==
    /\ current_scenario = 4
    /\ current_hop = 4
    /\ presses = MaxPresses

====
